---- MODULE Spec2Model ----
(***************************************************************************)
(* A model of lib/jsonschema-tools.js: materialization of one schema       *)
(* directory (materializeSchemaToPath with its per-content-type branches   *)
(* run under Promise.all, createSymlink, updateLatestSymlink), the tail of *)
(* materializeModifiedSchemas (git add), installGitHook, and the schema    *)
(* resolver built by createSchemaResolver.                                 *)
(***************************************************************************)
EXTENDS Integers, Sequences, FiniteSets, TLC

VARIABLES
    opts,        \* options as returned by readConfig, fixed for a behaviour
    dir,         \* the schema directory: path -> entry
    staged,      \* paths staged in the git index by gitAdd
    hook,        \* state of .git/hooks/pre-commit
    hookDry,     \* dryRun option of the last installGitHook call
    pc,          \* position of the materializeSchemaToPath call
    call,        \* arguments of the call in progress (schema, dryRun)
    bpc,         \* position of the async branch of every content type
    stage,       \* which symlink the branch of a content type is creating
    files,       \* materializedFiles of the branch of every content type
    ret,         \* value the call resolved with
    err,         \* error the call rejected with
    rpc,         \* position of the resolver's read
    file,        \* the file argument of the resolver's read: its url
    uris,        \* number of schemaBaseUris handed to createSchemaResolver
    readable,    \* candidate index -> does the read of that candidate succeed
    attempts,    \* candidate indexes read so far, in the order of the reads
    result,      \* index of the candidate whose content read() returned
    reason,      \* candidates named by the error the promise chain holds
    faults,      \* number of I/O operations that failed
    startDir,    \* history: dir when the call started
    startStaged, \* history: staged when the call started
    touched,     \* history: paths written or symlinked by the call
    extBy,       \* history: content types whose branch created <version>
    tree,        \* enforceNumericBounds: the schema object the caller holds
    given,       \* history: the schema as it was handed to enforceNumericBounds
    bounds,      \* options.enforcedNumericBounds: <<min, max>>
    schemaCopy,  \* the schema enforceNumericBounds returned
    epc,         \* position of the numeric bounds run
    listing,     \* findAllSchemasInfo: the schema infos in directory order
    sorted,      \* the array findAllSchemasInfo returned
    spc,         \* position of the findAllSchemasInfo call
    pairs,       \* the (old, new) pairs the compatibility tests are declared for
    group,       \* compatibility tests: the materialized schemas of one
                 \* title and major version, in findSchemasByTitleAndMajor order
    outcomes,    \* outcome of assertCompatible for every consecutive pair
    cpc,         \* position of the compatibility tests
    held,        \* the schema objects of the group as the tests leave them
    node,        \* the schema handed to assertSnakeCaseProperties
    thrown,      \* what assertSnakeCaseProperties threw
    kpc,         \* position of the snake case test case
    objects,     \* serialization: the keys of the objects handed to
                 \* serialize, in insertion order
    dumped,      \* the keys in the order the YAML text has them
    ypc,         \* the objects serialized so far
    run,         \* materializeAllSchemas or materializeModifiedSchemas:
                 \* the function and options.dryRun
    repo,        \* title -> what the materialized file of its version holds
    inlined,     \* title -> what dereferencing read of the schema it refers to
    mpc,         \* title -> position of its materializeSchemaToPath call
    configHasBeenRead, \* readConfig: have the config files been read once
    configs,     \* what the two config files of configPaths set
    calls,       \* number of readConfig calls so far
    lastCall,    \* the arguments of the last readConfig call
    config,      \* what the last readConfig call returned
    layout,      \* structure tests: title -> how its directory is laid out
    declared,    \* the test cases declared, with their only mark
    report,      \* the test cases mocha ran, with their result
    tpc          \* position of the mocha run

\* the state of materializeSchemaToPath, the resolver and installGitHook
materializeVars == <<opts, dir, staged, hook, hookDry, pc, call, bpc, stage,
                     files, ret, err, rpc, file, uris, readable, attempts,
                     result, reason, faults, startDir, startStaged, touched,
                     extBy>>
boundsVars == <<tree, given, bounds, schemaCopy, epc>>
\* the state of the library functions that materializeSchemaToPath, the
\* resolver and installGitHook never touch
sortVars == <<listing, sorted, spc, pairs>>
compatVars == <<group, outcomes, cpc, held>>
snakeVars == <<node, thrown, kpc>>
yamlVars == <<objects, dumped, ypc>>
runVars == <<run, repo, inlined, mpc>>
configVars == <<configHasBeenRead, configs, calls, lastCall, config>>
structVars == <<layout, declared, report, tpc>>
restVars == <<configVars, structVars>>
laterVars == <<yamlVars, runVars, restVars>>
pureVars == <<boundsVars, sortVars, compatVars, snakeVars, laterVars>>

vars == <<materializeVars, pureVars>>

fsVars == <<dir, staged, hook, hookDry>>
branchVars == <<bpc, stage, files>>
resolverVars == <<rpc, file, uris, readable, attempts, result, reason>>
historyVars == <<startDir, startStaged, touched, extBy>>

-----------------------------------------------------------------------------
(* Bounds *)

MaxFaults == 1     \* failing I/O operations in one behaviour
MaxMinor == 0      \* highest minor number of the 1.x.0 versions
MaxUris == 3       \* longest list of schemaBaseUris

-----------------------------------------------------------------------------
(* Versions and semver.compare *)

NoVersion == <<>>

Versions == {<<1, m, 0>> : m \in 0..MaxMinor} \cup {<<2, 0, 0>>}

semverCompare(a, b) ==
    IF a[1] # b[1] THEN (IF a[1] < b[1] THEN -1 ELSE 1)
    ELSE IF a[2] # b[2] THEN (IF a[2] < b[2] THEN -1 ELSE 1)
    ELSE IF a[3] # b[3] THEN (IF a[3] < b[3] THEN -1 ELSE 1)
    ELSE 0

\* schemaVersion(schema, '$id'): semver.coerce(basename($id)).version.
\* The $id of a schema is modelled by the version its last segment coerces
\* to, NoVersion when semver.coerce returns null (the .version access throws).
schemaVersionThrows(schema) == schema.id = NoVersion

schemaVersion(schema) == schema.id

-----------------------------------------------------------------------------
(* Schemas and serialization *)

Bodies == {"plain", "withRef", "conflicting"}

Schemas == [id : Versions \cup {NoVersion}, body : Bodies]

NoDoc == [id |-> NoVersion, body |-> ""]

\* the text of a file opened with flag 'w' and not written yet
Truncated == [fmt |-> "", doc |-> NoDoc]

serializers == {"yaml", "json"}

\* a content type without serializer, to exercise the throw of serialize()
UnknownType == "xml"

serializeThrows(contentType) == contentType \notin serializers

serialize(object, contentType) == [fmt |-> contentType, doc |-> object]

\* yaml.safeLoad of the text of a file (JSON is YAML): undefined for ''
readObjectSync(text) == text.doc

-----------------------------------------------------------------------------
(* Paths and directory entries *)

NoBase == <<0, 0, 0>>

VersionPath(v, e) == [latest |-> FALSE, version |-> v, ext |-> e]

LatestPath(e) == [latest |-> TRUE, version |-> NoBase, ext |-> e]

NoPath == [latest |-> FALSE, version |-> NoBase, ext |-> ""]

\* extensionlessPath(filePath): dir + name of path.parse
extensionlessPath(p) == [p EXCEPT !.ext = ""]

ContentTypes == serializers \cup {UnknownType}

AllPaths == {VersionPath(v, e) : v \in Versions, e \in ContentTypes \cup {""}}
            \cup {LatestPath(e) : e \in ContentTypes \cup {""}}

LatestPaths == {LatestPath(e) : e \in ContentTypes \cup {""}}

Absent == [kind |-> "absent", text |-> Truncated, target |-> NoPath]

FileEntry(text) == [kind |-> "file", text |-> text, target |-> NoPath]

SymlinkEntry(t) == [kind |-> "symlink", text |-> Truncated, target |-> t]

EmptyDir == [p \in AllPaths |-> Absent]

\* the entry a path resolves to, following symlinks (targets are relative
\* names in the same directory)
Resolve(d, p) ==
    LET e1 == d[p] IN
    IF e1.kind # "symlink" THEN e1
    ELSE IF e1.target \notin AllPaths THEN Absent
    ELSE LET e2 == d[e1.target] IN
         IF e2.kind # "symlink" THEN e2
         ELSE IF e2.target \notin AllPaths THEN Absent
         ELSE LET e3 == d[e2.target] IN
              IF e3.kind # "symlink" THEN e3 ELSE Absent

\* fse.existsSync follows symlinks: false for a dangling symlink
existsSync(d, p) == Resolve(d, p).kind = "file"

\* schemaPathToInfo(p).version throws when the file has no parsable $id
schemaPathToInfoThrows(d, p) ==
    schemaVersionThrows(readObjectSync(Resolve(d, p).text))

schemaPathToInfoVersion(d, p) ==
    schemaVersion(readObjectSync(Resolve(d, p).text))

-----------------------------------------------------------------------------
(* Options *)

ContentTypeLists ==
    {<<"yaml", "json">>, <<"yaml">>, <<UnknownType, "yaml">>}

Options == [shouldSymlinkExtensionless : BOOLEAN,
            shouldSymlinkLatest : BOOLEAN,
            contentTypes : ContentTypeLists]

defaultOptions == [shouldSymlinkExtensionless |-> TRUE,
                   shouldSymlinkLatest |-> TRUE,
                   contentTypes |-> <<"yaml", "json">>]

Range(s) == {s[i] : i \in 1..Len(s)}

RECURSIVE flatten(_, _)
\* _.flatten of the branches' materializedFiles, in contentTypes order
flatten(fs, cts) ==
    IF cts = <<>> THEN <<>> ELSE fs[Head(cts)] \o flatten(fs, Tail(cts))

-----------------------------------------------------------------------------
(* The call in progress *)

Idle == [schema |-> [id |-> NoVersion, body |-> "plain"], dryRun |-> FALSE]

version == schemaVersion(call.schema)

contentTypes == opts.contentTypes

\* materializedSchemaPath of the branch of a content type
materializedSchemaPath(contentType) == VersionPath(version, contentType)

\* what materializeSchema returns: the dereferenced schema
materializeSchema(schema) == schema

-----------------------------------------------------------------------------
(* updateLatestSymlink and the extensionless symlink *)

\* mutation: the comparison of the versions is left out
shouldUpdateLatestNoCompare(d, p, v) == opts.shouldSymlinkLatest

\* mutation: the comparison of the versions is reversed
shouldUpdateLatestReversed(d, p, v) ==
    /\ opts.shouldSymlinkLatest
    /\ \/ ~existsSync(d, p)
       \/ semverCompare(v, schemaPathToInfoVersion(d, p)) <= 0

\* the condition of updateLatestSymlink
shouldUpdateLatest(d, p, v) ==
    /\ opts.shouldSymlinkLatest
    /\ \/ ~existsSync(d, p)
       \/ semverCompare(v, schemaPathToInfoVersion(d, p)) >= 0

\* schemaPathToInfo throws inside the condition of updateLatestSymlink
updateLatestThrows(d, p) ==
    /\ opts.shouldSymlinkLatest
    /\ existsSync(d, p)
    /\ schemaPathToInfoThrows(d, p)

\* mutation: every content type creates the extensionless symlink
shouldSymlinkExtensionlessAny(contentType) == opts.shouldSymlinkExtensionless

\* the condition of the extensionless symlink
shouldSymlinkExtensionless(contentType) ==
    /\ opts.shouldSymlinkExtensionless
    /\ contentType = contentTypes[1]

\* mutation: only the artifacts are pushed, the symlinks are forgotten
pushArtifactsOnly(fs, p, dryRun) ==
    IF ~dryRun /\ ~p.latest /\ p.ext # "" THEN Append(fs, p) ELSE fs

\* mutation: the path is pushed in dry-run mode too
pushAlways(fs, p, dryRun) == Append(fs, p)

\* materializedFiles.push(p) inside the if (!options.dryRun) branches
push(fs, p, dryRun) == IF ~dryRun THEN Append(fs, p) ELSE fs

\* the symlink a branch is creating
linkPath(contentType) ==
    CASE stage[contentType] = "latestCt" -> LatestPath(contentType)
      [] stage[contentType] = "ext" ->
            extensionlessPath(materializedSchemaPath(contentType))
      [] stage[contentType] = "latest" -> LatestPath("")
      [] OTHER -> NoPath

\* the next position of a branch, as <<bpc, stage>>, from the extensionless
\* 'latest' onwards
planLatest(d) ==
    IF updateLatestThrows(d, LatestPath("")) THEN <<"failed", "none">>
    ELSE IF shouldUpdateLatest(d, LatestPath(""), version)
         THEN <<"unlink", "latest">>
         ELSE <<"finished", "none">>

\* ... from the extensionless versioned symlink onwards
planExtensionless(contentType) ==
    IF shouldSymlinkExtensionless(contentType) THEN <<"unlink", "ext">>
    ELSE <<"finished", "none">>

\* ... from latest.<contentType> onwards
planLatestCt(d, contentType) ==
    IF updateLatestThrows(d, LatestPath(contentType))
    THEN <<"failed", "none">>
    ELSE IF shouldUpdateLatest(d, LatestPath(contentType), version)
         THEN <<"unlink", "latestCt">>
         ELSE planExtensionless(contentType)

\* a whole branch in dry-run mode: it only reads the directory
dryRunBranch(d, contentType) ==
    LET f1 == push(<<>>, materializedSchemaPath(contentType), TRUE)
        lct == LatestPath(contentType)
        throws1 == updateLatestThrows(d, lct)
        f2 == IF ~throws1 /\ shouldUpdateLatest(d, lct, version)
              THEN push(f1, lct, TRUE) ELSE f1
        ext == shouldSymlinkExtensionless(contentType)
        f3 == IF ext
              THEN push(f2, extensionlessPath(
                                materializedSchemaPath(contentType)), TRUE)
              ELSE f2
        throws2 == ext /\ updateLatestThrows(d, LatestPath(""))
        f4 == IF ext /\ ~throws2
                     /\ shouldUpdateLatest(d, LatestPath(""), version)
              THEN push(f3, LatestPath(""), TRUE) ELSE f3
    IN IF throws1 \/ throws2 THEN [bpc |-> "failed", files |-> <<>>]
       ELSE [bpc |-> "finished", files |-> f4]

\* mutation: the branch writes in dry-run mode too
startBranchIgnoringDryRun(d, contentType, dryRun) ==
    IF serializeThrows(contentType) THEN "failed" ELSE "writeOpen"

\* the position a branch reaches synchronously: in dry-run mode it is over,
\* otherwise serialize() threw or fse.writeFile is pending
startBranch(d, contentType, dryRun) ==
    IF dryRun THEN dryRunBranch(d, contentType).bpc
    ELSE IF serializeThrows(contentType) THEN "failed"
    ELSE "writeOpen"

-----------------------------------------------------------------------------
(* Promise.all over the branches *)

\* the state of the call's promise given the branches' positions
settle(nb) ==
    IF pc = "failed" THEN "failed"
    ELSE IF \E ct \in Range(contentTypes) : nb[ct] = "failed" THEN "failed"
    ELSE IF \A ct \in Range(contentTypes) : nb[ct] = "finished" THEN "done"
    ELSE "branches"

\* the call settles (or not) as npc with the branches at nb, nf
Settle(npc, nb, nf, e) ==
    /\ pc' = npc
    /\ ret' = IF npc = "done" THEN flatten(nf, contentTypes) ELSE ret
    /\ err' = IF npc = "failed" /\ pc # "failed" THEN e ELSE err

\* one branch moves to position b, creating symlink s next, with files f
BranchStep(ct, b, s, f, e) ==
    LET nb == [bpc EXCEPT ![ct] = b]
        nf == [files EXCEPT ![ct] = f]
    IN /\ bpc' = nb
       /\ stage' = [stage EXCEPT ![ct] = s]
       /\ files' = nf
       /\ Settle(settle(nb), nb, nf, e)

-----------------------------------------------------------------------------
(* Initial states *)

\* The directory an earlier run left: the versions of 'present' materialized
\* under options o (schemas without $ref), and the latest symlinks at
\* version l, or missing (l = NoVersion: never created, or deleted as in the
\* NOTE of updateLatestSymlink).  They dangle when l is not present.
dirOf(present, l, o) ==
    LET cts == Range(o.contentTypes) \cap serializers
        primary == o.contentTypes[1]
        ext == o.shouldSymlinkExtensionless /\ primary \in serializers
    IN [p \in AllPaths |->
          IF ~p.latest
          THEN IF p.version \notin present THEN Absent
               ELSE IF p.ext \in cts
               THEN FileEntry(serialize(materializeSchema(
                        [id |-> p.version, body |-> "plain"]), p.ext))
               ELSE IF p.ext = "" /\ ext
               THEN SymlinkEntry(VersionPath(p.version, primary))
               ELSE Absent
          ELSE IF l = NoVersion \/ ~o.shouldSymlinkLatest THEN Absent
               ELSE IF p.ext \in cts THEN SymlinkEntry(VersionPath(l, p.ext))
               ELSE IF p.ext = "" /\ ext
               THEN SymlinkEntry(VersionPath(l, primary))
               ELSE Absent]

InitDirs(o) ==
    {dirOf(present, l, o) :
        present \in SUBSET Versions, l \in Versions \cup {NoVersion}}

NoBranches == [ct \in ContentTypes |-> "none"]

NoStages == [ct \in ContentTypes |-> "none"]

NoFiles == [ct \in ContentTypes |-> <<>>]

NoReadable == [i \in {} |-> FALSE]

Urls == [hasProtocol : BOOLEAN, id : Versions]

\* the url of the $ref of the schemas with body "withRef": /common/1.0.0
RefUrl == [hasProtocol |-> FALSE, id |-> <<1, 0, 0>>]

NoFile == [url |-> [hasProtocol |-> FALSE, id |-> NoVersion]]

InitCommon ==
    /\ staged = {}
    /\ hook = "absent"
    /\ hookDry = "none"
    /\ pc = "idle"
    /\ call = Idle
    /\ bpc = NoBranches
    /\ stage = NoStages
    /\ files = NoFiles
    /\ ret = <<>>
    /\ err = "none"
    /\ rpc = "idle"
    /\ file = NoFile
    /\ uris = 0
    /\ readable = NoReadable
    /\ attempts = <<>>
    /\ result = 0
    /\ reason = <<>>
    /\ faults = 0
    /\ startStaged = {}
    /\ touched = {}
    /\ extBy = <<>>

\* no call of enforceNumericBounds is in progress
BoundsIdle ==
    /\ tree = <<>>
    /\ given = <<>>
    /\ bounds = <<>>
    /\ schemaCopy = <<>>
    /\ epc = "idle"

\* no call of findAllSchemasInfo is in progress
SortIdle ==
    /\ listing = <<>>
    /\ sorted = <<>>
    /\ spc = "idle"
    /\ pairs = {}

\* the compatibility tests are not running
CompatIdle ==
    /\ group = <<>>
    /\ outcomes = <<>>
    /\ cpc = "idle"
    /\ held = <<>>

\* the snake case test case is not running
SnakeIdle ==
    /\ node = <<>>
    /\ thrown = <<>>
    /\ kpc = "idle"

\* serialize is not running
YamlIdle ==
    /\ objects = <<>>
    /\ dumped = <<>>
    /\ ypc = {}

\* neither materializeAllSchemas nor materializeModifiedSchemas is running
RunIdle ==
    /\ run = <<>>
    /\ repo = <<>>
    /\ inlined = <<>>
    /\ mpc = <<>>

\* readConfig has not been called
ConfigIdle ==
    /\ configHasBeenRead = FALSE
    /\ configs = <<>>
    /\ calls = 0
    /\ lastCall = <<>>
    /\ config = <<>>

\* no test case is declared
StructIdle ==
    /\ layout = <<>>
    /\ declared = {}
    /\ report = {}
    /\ tpc = "idle"

RestIdle == ConfigIdle /\ StructIdle

LaterIdle == YamlIdle /\ RunIdle /\ RestIdle

PureIdle == BoundsIdle /\ SortIdle /\ CompatIdle /\ SnakeIdle /\ LaterIdle

Init ==
    /\ opts \in Options
    /\ dir \in InitDirs(opts)
    /\ startDir = dir
    /\ InitCommon
    /\ PureIdle

-----------------------------------------------------------------------------
(* materializeSchemaToPath: the synchronous head and materializeSchema *)

\* materializeSchemaToPath(schemaDirectory, schema, options) is called:
\* readConfig, then schemaVersion, which may throw
Call(schema, dryRun) ==
    /\ pc = "idle"
    /\ rpc = "idle"
    /\ hookDry = "none"
    /\ call' = [schema |-> schema, dryRun |-> dryRun]
    /\ startDir' = dir
    /\ startStaged' = staged
    /\ touched' = {}
    /\ extBy' = <<>>
    /\ bpc' = NoBranches
    /\ stage' = NoStages
    /\ files' = NoFiles
    /\ ret' = <<>>
    /\ IF schemaVersionThrows(schema)
       THEN /\ pc' = "failed"
            /\ err' = "VersionError"
       ELSE /\ pc' = "materializeSchema"
            /\ err' = "none"
    /\ UNCHANGED <<pureVars, opts, fsVars, resolverVars, faults>>

\* readConfig sets schemaBaseUris to [schemaBasePath] when it is not set
defaultSchemaBaseUris == 1

\* the map over contentTypes of materializeSchemaToPath: the synchronous
\* part of every branch, in contentTypes order
StartBranches ==
    LET nb == [ct \in ContentTypes |->
                 IF ct \notin Range(contentTypes) THEN "none"
                 ELSE startBranch(dir, ct, call.dryRun)]
        nf == [ct \in ContentTypes |->
                 IF ct \in Range(contentTypes) /\ call.dryRun
                 THEN dryRunBranch(dir, ct).files ELSE <<>>]
    IN /\ bpc' = nb
       /\ files' = nf
       /\ stage' = NoStages
       /\ Settle(settle(nb), nb, nf,
                 IF call.dryRun THEN "ReadError" ELSE "SerializeError")

\* mutation: the catch of dereferenceSchema logs the error and does not
\* rethrow it
DereferenceSwallow ==
    /\ pc = "materializeSchema"
    /\ call.schema.body # "withRef"
    /\ StartBranches
    /\ UNCHANGED <<pureVars, opts, call, fsVars, resolverVars, faults, historyVars>>

\* dereferenceSchema of a schema without $ref: RefParser.dereference and
\* mergeAllOf succeed, or mergeAllOf throws on a conflict
Dereference ==
    /\ pc = "materializeSchema"
    /\ call.schema.body # "withRef"
    /\ IF call.schema.body = "conflicting"
       THEN /\ pc' = "failed"
            /\ err' = "DereferenceError"
            /\ UNCHANGED <<branchVars, ret>>
       ELSE StartBranches
    /\ UNCHANGED <<pureVars, opts, call, fsVars, resolverVars, faults, historyVars>>

-----------------------------------------------------------------------------
(* createSchemaResolver(schemaBaseUris).read(file) *)

\* resolveUri(file.url, baseUri) for the i-th base URI: the base URI is
\* prepended unless the url has a protocol; a url that still has no
\* protocol becomes a file:// url.  base = 0: no base URI was prepended.
resolveUri(url, i) ==
    IF url.hasProtocol THEN [base |-> 0, id |-> url.id]
    ELSE [base |-> i, id |-> url.id]

\* the list 'files' of read(): one candidate per base URI, in list order
candidates(url, n) == [i \in 1..n |-> resolveUri(url, i)]

\* mutation: the fold goes on after a success, the last success wins
readOutcomeLastWins(ok, i, n, res) ==
    IF i < n THEN "reading"
    ELSE IF ok \/ res # 0 THEN "resolved" ELSE "rejected"

\* the state of the promise chain after the handler of candidate i of n
\* ran with outcome ok: a fulfilled promise skips every later catch handler
readOutcome(ok, i, n, res) ==
    IF ok THEN "resolved" ELSE IF i = n THEN "rejected" ELSE "reading"

\* mutation: the handler adds its url to the urls the previous error names
readErrorAccumulating(prev, i) == Append(prev, i)

\* the error a failed handler throws: that of fileResolver.read(f) or
\* httpResolver.read(f), which names f.url alone; the error the chain held
\* before (the argument of the catch handler) is dropped
readError(prev, i) == <<i>>

\* read(file) builds the chain; it is seeded with a rejected promise, whose
\* reason is undefined (it names no url)
ResolverRead(f, n, r) ==
    /\ rpc' = IF n = 0 THEN "rejected" ELSE "reading"
    /\ file' = f
    /\ uris' = n
    /\ readable' = r
    /\ attempts' = <<>>
    /\ result' = 0
    /\ reason' = <<>>

\* the catch handler of the next candidate runs: one read of its url
ResolverAttempt ==
    /\ rpc = "reading"
    /\ LET i == Len(attempts) + 1 IN
       /\ attempts' = Append(attempts, i)
       /\ result' = IF readable[i] THEN i ELSE result
       /\ reason' = IF readable[i] THEN <<>> ELSE readError(reason, i)
       /\ rpc' = readOutcome(readable[i], i, uris, result)
    /\ UNCHANGED <<pureVars, opts, fsVars, pc, call, branchVars, ret, err, file, uris,
                   readable, faults, historyVars>>

ResolverReset ==
    /\ rpc' = "idle"
    /\ file' = NoFile
    /\ uris' = 0
    /\ readable' = NoReadable
    /\ attempts' = <<>>
    /\ result' = 0
    /\ reason' = <<>>

\* dereferenceSchema of a schema with a $ref: RefParser.dereference reads
\* the $ref through the resolver
DereferenceRef(r) ==
    /\ pc = "materializeSchema"
    /\ call.schema.body = "withRef"
    /\ pc' = "resolving"
    /\ ResolverRead([url |-> RefUrl], defaultSchemaBaseUris, r)
    /\ UNCHANGED <<pureVars, opts, fsVars, call, branchVars, ret, err, faults, historyVars>>

\* the read settled: dereferenceSchema rethrows the error or returns the
\* dereferenced schema, and materializeSchemaToPath goes on
DereferenceSettle ==
    /\ pc = "resolving"
    /\ rpc \in {"resolved", "rejected"}
    /\ ResolverReset
    /\ IF rpc = "rejected"
       THEN /\ pc' = "failed"
            /\ err' = "ResolutionError"
            /\ UNCHANGED <<branchVars, ret>>
       ELSE StartBranches
    /\ UNCHANGED <<pureVars, opts, call, fsVars, faults, historyVars>>

\* getSchemaById(schemaId, options): read({url: schemaId}) over
\* options.schemaBaseUris
GetSchemaById(schemaId, n, r) ==
    /\ pc = "idle"
    /\ hookDry = "none"
    /\ rpc \in {"idle", "returned"}
    /\ ResolverRead([url |-> schemaId], n, r)
    /\ UNCHANGED <<pureVars, opts, fsVars, pc, call, branchVars, ret, err, faults,
                   historyVars>>

\* getSchemaById returns (yaml.safeLoad of the content) or rejects
GetSchemaByIdSettle ==
    /\ pc = "idle"
    /\ rpc \in {"resolved", "rejected"}
    /\ rpc' = "returned"
    /\ UNCHANGED <<pureVars, opts, fsVars, pc, call, branchVars, ret, err, file, uris,
                   readable, attempts, result, reason, faults, historyVars>>

-----------------------------------------------------------------------------
(* The branch of one content type, dryRun off *)

Corrupt == [fmt |-> "corrupt", doc |-> NoDoc]

\* mutation: the file is opened with flag 'a', which keeps its text
openTextAppend(entry) ==
    IF entry.kind = "file" THEN entry.text ELSE Truncated

\* the text of a file after fs.open(path, 'w'): created or truncated
openText(entry) == Truncated

\* the text of a file after 'bytes' were written at the end of 'text'
writeText(text, bytes) == IF text = Truncated THEN bytes ELSE Corrupt

\* writeObject: fse.writeFile opens the file with flag 'w', which creates
\* or truncates it
WriteOpen(ct) ==
    /\ bpc[ct] = "writeOpen"
    /\ \E ok \in BOOLEAN :
        /\ ~ok => faults < MaxFaults
        /\ faults' = IF ok THEN faults ELSE faults + 1
        /\ IF ok
           THEN /\ dir' = [dir EXCEPT ![materializedSchemaPath(ct)] =
                                            FileEntry(openText(dir[materializedSchemaPath(ct)]))]
                /\ touched' = touched \cup {materializedSchemaPath(ct)}
                /\ BranchStep(ct, "writeData", "none", files[ct], "none")
           ELSE /\ UNCHANGED <<dir, touched>>
                /\ BranchStep(ct, "failed", "none", files[ct], "WriteError")
    /\ UNCHANGED <<pureVars, opts, staged, hook, hookDry, call, resolverVars, startDir,
                   startStaged, extBy>>

\* writeObject: fse.writeFile writes the serialized schema
WriteData(ct) ==
    /\ bpc[ct] = "writeData"
    /\ \E ok \in BOOLEAN :
        /\ ~ok => faults < MaxFaults
        /\ faults' = IF ok THEN faults ELSE faults + 1
        /\ IF ok
           THEN /\ dir' = [dir EXCEPT ![materializedSchemaPath(ct)] =
                     FileEntry(writeText(dir[materializedSchemaPath(ct)].text,
                         serialize(materializeSchema(call.schema), ct)))]
                /\ BranchStep(ct, "written", "none", files[ct], "none")
           ELSE /\ UNCHANGED dir
                /\ BranchStep(ct, "failed", "none", files[ct], "WriteError")
    /\ UNCHANGED <<pureVars, opts, staged, hook, hookDry, call, resolverVars, startDir,
                   startStaged, touched, extBy>>

\* the continuation of 'await writeObject': the path is pushed and
\* updateLatestSymlink(latest.<contentType>) evaluates its condition
AfterWrite(ct) ==
    /\ bpc[ct] = "written"
    /\ LET plan == planLatestCt(dir, ct) IN
       BranchStep(ct, plan[1], plan[2],
                  push(files[ct], materializedSchemaPath(ct), call.dryRun),
                  "ReadError")
    /\ UNCHANGED <<pureVars, opts, fsVars, call, resolverVars, faults, historyVars>>

\* the error code of fse.unlink(p), "none" when it succeeds
unlinkCode(d, p, ok) ==
    IF d[p].kind = "absent" THEN "ENOENT" ELSE IF ok THEN "none" ELSE "EPERM"

\* mutation: the catch block swallows every error of fse.unlink
createSymlinkThrowsNever(code) == FALSE

\* the catch block of createSymlink: ENOENT is not an error
createSymlinkThrows(code) == code \notin {"none", "ENOENT"}

\* createSymlink: fse.unlink(symlinkPath); ENOENT is not an error
Unlink(ct) ==
    /\ bpc[ct] = "unlink"
    /\ \E ok \in BOOLEAN :
        /\ ~ok => faults < MaxFaults /\ dir[linkPath(ct)].kind # "absent"
        /\ faults' = IF ok THEN faults ELSE faults + 1
        /\ IF ~createSymlinkThrows(unlinkCode(dir, linkPath(ct), ok))
           THEN /\ dir' = [dir EXCEPT ![linkPath(ct)] = Absent]
                /\ BranchStep(ct, "symlink", stage[ct], files[ct], "none")
           ELSE /\ UNCHANGED dir
                /\ BranchStep(ct, "failed", "none", files[ct], "UnlinkError")
    /\ UNCHANGED <<pureVars, opts, staged, hook, hookDry, call, resolverVars, startDir,
                   startStaged, touched, extBy>>

\* createSymlink: fse.symlink(targetPath, symlinkPath); EEXIST when the
\* path is taken
Symlink(ct) ==
    /\ bpc[ct] = "symlink"
    /\ \E ok \in BOOLEAN :
        /\ ~ok => faults < MaxFaults
        /\ faults' = IF ok THEN faults ELSE faults + 1
        /\ IF ok /\ dir[linkPath(ct)].kind = "absent"
           THEN /\ dir' = [dir EXCEPT ![linkPath(ct)] =
                                  SymlinkEntry(materializedSchemaPath(ct))]
                /\ touched' = touched \cup {linkPath(ct)}
                /\ extBy' = IF stage[ct] = "ext" THEN Append(extBy, ct)
                            ELSE extBy
                /\ BranchStep(ct, "linked", stage[ct], files[ct], "none")
           ELSE /\ UNCHANGED <<dir, touched, extBy>>
                /\ BranchStep(ct, "failed", "none", files[ct], "SymlinkError")
    /\ UNCHANGED <<pureVars, opts, staged, hook, hookDry, call, resolverVars, startDir,
                   startStaged>>

\* the continuation of 'await createSymlink': the symlink is pushed and the
\* branch goes on to its next symlink
AfterLink(ct) ==
    /\ bpc[ct] = "linked"
    /\ LET plan == CASE stage[ct] = "latestCt" -> planExtensionless(ct)
                     [] stage[ct] = "ext" -> planLatest(dir)
                     [] OTHER -> <<"finished", "none">>
       IN BranchStep(ct, plan[1], plan[2],
                     push(files[ct], linkPath(ct), call.dryRun), "ReadError")
    /\ UNCHANGED <<pureVars, opts, fsVars, call, resolverVars, faults, historyVars>>

-----------------------------------------------------------------------------
(* materializeModifiedSchemas and installGitHook *)

\* the condition of the git add of materializeModifiedSchemas
shouldRunGitAdd(shouldGitAdd, dryRun) == shouldGitAdd /\ ~dryRun

\* the tail of materializeModifiedSchemas, after materializeSchemaToPath
\* resolved for the modified current schema: gitAdd(generatedFiles), which
\* may throw
GitAdd(shouldGitAdd) ==
    /\ pc = "done"
    /\ \E ok \in BOOLEAN :
        /\ ~ok => faults < MaxFaults /\ shouldRunGitAdd(shouldGitAdd,
                                                       call.dryRun)
        /\ faults' = IF ok THEN faults ELSE faults + 1
        /\ pc' = IF ok THEN "returned" ELSE "failed"
        /\ err' = IF ok THEN err ELSE "GitAddError"
        /\ staged' = IF ok /\ shouldRunGitAdd(shouldGitAdd, call.dryRun)
                     THEN staged \cup Range(ret) ELSE staged
    /\ UNCHANGED <<pureVars, opts, dir, hook, hookDry, call, branchVars, ret,
                   resolverVars, historyVars>>

\* the condition of the writeFile and chmod of installGitHook
shouldWriteHook(dryRun) == ~dryRun

\* installGitHook(options): fse.writeFile then fse.chmod of the pre-commit
\* hook; "written" when chmod failed
InstallGitHook(dryRun) ==
    /\ pc = "idle"
    /\ rpc = "idle"
    /\ hookDry' = IF dryRun THEN "dry" ELSE "real"
    /\ \E outcome \in {"ok", "writeFails", "chmodFails"} :
        /\ outcome # "ok" => faults < MaxFaults /\ shouldWriteHook(dryRun)
        /\ faults' = IF outcome = "ok" THEN faults ELSE faults + 1
        /\ hook' = IF ~shouldWriteHook(dryRun) \/ outcome = "writeFails"
                   THEN hook
                   ELSE IF outcome = "chmodFails" THEN "written"
                   ELSE "executable"
    /\ UNCHANGED <<pureVars, opts, dir, staged, pc, call, branchVars, ret, err,
                   resolverVars, historyVars>>

-----------------------------------------------------------------------------
(* Specification *)

Next ==
    \/ \E s \in Schemas, d \in BOOLEAN : Call(s, d)
    \/ Dereference
    \/ \E r \in [1..defaultSchemaBaseUris -> BOOLEAN] : DereferenceRef(r)
    \/ ResolverAttempt
    \/ DereferenceSettle
    \/ \E ct \in ContentTypes : WriteOpen(ct)
    \/ \E ct \in ContentTypes : WriteData(ct)
    \/ \E ct \in ContentTypes : AfterWrite(ct)
    \/ \E ct \in ContentTypes : Unlink(ct)
    \/ \E ct \in ContentTypes : Symlink(ct)
    \/ \E ct \in ContentTypes : AfterLink(ct)
    \/ \E g \in BOOLEAN : GitAdd(g)
    \/ \E d \in BOOLEAN : InstallGitHook(d)
    \/ \E u \in Urls, n \in 0..MaxUris :
          \E r \in [1..n -> BOOLEAN] : GetSchemaById(u, n, r)
    \/ GetSchemaByIdSettle

Spec == Init /\ [][Next]_vars

TypeOK ==
    /\ opts \in Options
    /\ pc \in {"idle", "materializeSchema", "resolving", "branches", "done",
               "failed", "returned"}
    /\ rpc \in {"idle", "reading", "resolved", "rejected", "returned"}
    /\ faults \in 0..MaxFaults
    /\ hook \in {"absent", "written", "executable"}
    /\ \A p \in AllPaths : dir[p].kind \in {"absent", "file", "symlink"}

-----------------------------------------------------------------------------
(* Vocabulary of the properties *)

Completed == pc \in {"done", "returned"}

doc == materializeSchema(call.schema)

artifacts == {materializedSchemaPath(ct) : ct \in Range(contentTypes)}

extensionless == VersionPath(version, "")

\* the latest symlinks the options ask for
latestPaths ==
    IF ~opts.shouldSymlinkLatest THEN {}
    ELSE {LatestPath(ct) : ct \in Range(contentTypes)}
         \cup (IF opts.shouldSymlinkExtensionless THEN {LatestPath("")}
               ELSE {})

\* the versioned file a latest symlink is to point at
latestTarget(p, v) ==
    VersionPath(v, IF p.ext = "" THEN contentTypes[1] ELSE p.ext)

\* does p resolve to a schema file with a version?
Resolves(d, p) == existsSync(d, p) /\ ~schemaPathToInfoThrows(d, p)

NoDuplicates(q) == \A i, j \in 1..Len(q) : q[i] = q[j] => i = j

\* the versions that have an artifact of the primary content type in d
Present(d) == {v \in Versions : d[VersionPath(v, contentTypes[1])].kind = "file"}

HighestOf(S) == CHOOSE v \in S : \A w \in S : semverCompare(v, w) >= 0

\* every latest symlink resolves to the file of the highest version in d
LatestIsHighest(d) ==
    \A p \in latestPaths :
        d[p] = SymlinkEntry(latestTarget(p, HighestOf(Present(d))))

BothSymlinkOptions ==
    opts.shouldSymlinkLatest /\ opts.shouldSymlinkExtensionless

-----------------------------------------------------------------------------
(* Properties of materializeSchemaToPath *)

\* C1: with dryRun off, a completed materializeSchemaToPath has written the
\* artifact <version>.<contentType> of every configured content type and
\* returns, without repetition, exactly the paths it wrote or symlinked:
\* the artifacts, the extensionless symlink when the option is on, and the
\* latest symlinks it created or replaced.
C1_ReturnsWhatItWrote ==
    (Completed /\ ~call.dryRun) =>
        /\ \A ct \in Range(contentTypes) :
              dir[materializedSchemaPath(ct)] = FileEntry(serialize(doc, ct))
        /\ Range(ret) = touched
        /\ NoDuplicates(ret)
        /\ artifacts \subseteq touched
        /\ opts.shouldSymlinkExtensionless <=> extensionless \in touched
        /\ touched \subseteq artifacts \cup {extensionless} \cup latestPaths
        /\ \A p \in latestPaths \cap touched :
              dir[p] = SymlinkEntry(latestTarget(p, version))

C1_Witness ==
    /\ pc = "done"
    /\ ~call.dryRun
    /\ Len(ret) = 6
    /\ LatestPath("") \in touched

\* C2: after a completed materializeSchemaToPath with
\* shouldSymlinkExtensionless on, <version> is a symlink to
\* <version>.<contentTypes[0]>, created once and by the branch of the first
\* content type only; with the option off no extensionless path is created.
C2_ExtensionlessSymlink ==
    /\ Len(extBy) <= 1
    /\ \A i \in 1..Len(extBy) : extBy[i] = contentTypes[1]
    /\ (Completed /\ ~call.dryRun /\ opts.shouldSymlinkExtensionless) =>
          /\ dir[extensionless] =
                SymlinkEntry(VersionPath(version, contentTypes[1]))
          /\ extBy = <<contentTypes[1]>>
    /\ ~opts.shouldSymlinkExtensionless =>
          /\ extBy = <<>>
          /\ \A p \in AllPaths : p.ext = "" => dir[p] = startDir[p]

C2_Witness ==
    /\ pc = "done"
    /\ opts.shouldSymlinkExtensionless
    /\ Len(contentTypes) = 2
    /\ extBy = <<"yaml">>
    /\ dir[extensionless] = SymlinkEntry(VersionPath(version, "yaml"))
    /\ startDir[extensionless].kind = "absent"

\* C3 as stated: whatever the directory held before, after a completed
\* materialization (both symlink options on) every latest symlink resolves
\* to the file of the highest version materialized in the directory.
C3_Original ==
    (Completed /\ ~call.dryRun /\ BothSymlinkOptions) => LatestIsHighest(dir)

\* C3 amended: if before a materialization the directory holds no
\* materialized version, or its latest symlinks resolve to the highest
\* version it holds, then after the completed materialization (both symlink
\* options on) every latest symlink resolves to the file of the highest
\* version in the directory; by induction this holds after any sequence of
\* completed materializations into a directory that was empty at first.
C3_LatestIsHighest ==
    (/\ Completed
     /\ ~call.dryRun
     /\ BothSymlinkOptions
     /\ Present(startDir) = {} \/ LatestIsHighest(startDir))
    => /\ version \in Present(dir)
       /\ Present(dir) = Present(startDir) \cup {version}
       /\ LatestIsHighest(dir)

C3_Witness ==
    /\ pc = "done"
    /\ ~call.dryRun
    /\ BothSymlinkOptions
    /\ Present(startDir) # {}
    /\ LatestIsHighest(startDir)
    /\ semverCompare(version, HighestOf(Present(startDir))) < 0
    /\ LatestIsHighest(dir)

\* C4: with shouldSymlinkLatest on, a latest symlink that exists and
\* resolves is replaced only if the materialized version is greater than or
\* equal to the version of the schema it resolves to; a missing latest
\* symlink is created; a resolvable latest symlink never comes to resolve to
\* a strictly lower version.
C4_LatestNeverLowered ==
    /\ \A p \in LatestPaths :
          (p \in touched /\ Resolves(startDir, p)) =>
              semverCompare(version, schemaPathToInfoVersion(startDir, p)) >= 0
    /\ \A p \in LatestPaths :
          (Resolves(startDir, p) /\ Resolves(dir, p)) =>
              semverCompare(schemaPathToInfoVersion(dir, p),
                            schemaPathToInfoVersion(startDir, p)) >= 0
    /\ (Completed /\ ~call.dryRun) =>
          \A p \in latestPaths :
              startDir[p].kind = "absent" =>
                  /\ p \in touched
                  /\ dir[p] = SymlinkEntry(latestTarget(p, version))

C4_Witness ==
    /\ pc = "done"
    /\ \E p \in latestPaths :
          /\ Resolves(startDir, p)
          /\ p \in touched
          /\ semverCompare(version, schemaPathToInfoVersion(startDir, p)) > 0
    /\ \E p \in latestPaths : Resolves(startDir, p) /\ p \in touched

\* the state a completed materialization of the call's schema leaves: the
\* artifacts, the extensionless symlink, and latest symlinks that point at
\* this version or resolve to a higher one
Materialized(d) ==
    /\ \A ct \in Range(contentTypes) :
          d[materializedSchemaPath(ct)] = FileEntry(serialize(doc, ct))
    /\ opts.shouldSymlinkExtensionless =>
          d[extensionless] = SymlinkEntry(VersionPath(version, contentTypes[1]))
    /\ \A p \in latestPaths :
          \/ d[p] = SymlinkEntry(latestTarget(p, version))
          \/ /\ Resolves(d, p)
             /\ semverCompare(schemaPathToInfoVersion(d, p), version) > 0

\* C5: materialization is idempotent: a completed materialization leaves
\* the state Materialized, and materializing the same schema with the same
\* options in that state leaves every artifact and every symlink as it was.
C5_Idempotent ==
    (Completed /\ ~call.dryRun) =>
        /\ Materialized(dir)
        /\ Materialized(startDir) => dir = startDir

C5_Witness ==
    /\ pc = "done"
    /\ ~call.dryRun
    /\ Materialized(startDir)
    /\ BothSymlinkOptions
    /\ Len(ret) = 6
    /\ dir = startDir

\* the paths a run with dryRun off writes or symlinks
wouldWrite(d) ==
    artifacts
    \cup (IF opts.shouldSymlinkExtensionless THEN {extensionless} ELSE {})
    \cup {p \in latestPaths : shouldUpdateLatest(d, p, version)}

\* C6 as stated: a dry run returns the list of paths a run with dryRun off
\* returns for the same schema, options and directory.
C6_Original ==
    (Completed /\ call.dryRun /\ Range(contentTypes) \subseteq serializers)
    => Range(ret) = wouldWrite(startDir)

\* C6 amended: in dry-run mode materializeSchemaToPath returns the empty
\* list (the paths that would have been written are only logged), whereas
\* a run with dryRun off returns the paths it wrote, of which there is at
\* least one.
C6_DryRunReturnsNothing ==
    /\ (Completed /\ call.dryRun) => ret = <<>>
    /\ (Completed /\ ~call.dryRun) =>
          Range(ret) = wouldWrite(startDir) /\ ret # <<>>

C6_Witness ==
    /\ pc = "done"
    /\ call.dryRun
    /\ ret = <<>>
    /\ Cardinality(wouldWrite(startDir)) = 6

\* C7: in dry-run mode nothing changes: no step of a dry-run
\* materializeSchemaToPath or of the tail of materializeModifiedSchemas
\* changes the directory or the git index, and a dry-run installGitHook
\* leaves the hook file as it was.
C7_DryRunChangesNothing ==
    [][/\ (call'.dryRun /\ pc' # "idle") => (dir' = dir /\ staged' = staged)
       /\ hookDry' = "dry" => hook' = hook]_vars

C7_Witness ==
    /\ pc = "returned"
    /\ call.dryRun
    /\ dir = startDir
    /\ staged = startStaged
    /\ wouldWrite(startDir) # {}

\* C8 as stated: when the serialization or the write of one content type
\* fails, no artifact and no symlink of a content type listed after it is
\* written by the call.
C8_Original ==
    \A i, j \in 1..Len(contentTypes) :
        (/\ i < j
         /\ bpc[contentTypes[i]] = "failed"
         /\ err \in {"SerializeError", "WriteError"})
        => /\ materializedSchemaPath(contentTypes[j]) \notin touched
           /\ LatestPath(contentTypes[j]) \notin touched

\* C9: when version extraction or dereferencing (reference resolution,
\* allOf merge) fails, materializeSchemaToPath rejects with that error and
\* has written nothing: no branch was started, the directory is as it was.
C9_FailsBeforeWriting ==
    /\ (pc # "idle" /\ schemaVersionThrows(call.schema)) =>
          pc = "failed" /\ err = "VersionError"
    /\ (pc \notin {"idle", "materializeSchema"}
          /\ call.schema.body = "conflicting") =>
          pc = "failed" /\ err \in {"VersionError", "DereferenceError"}
    /\ (pc = "failed"
          /\ err \in {"VersionError", "DereferenceError", "ResolutionError"})
       => /\ dir = startDir
          /\ touched = {}
          /\ \A ct \in ContentTypes : bpc[ct] = "none"

C9_Witness ==
    /\ pc = "failed"
    /\ err = "DereferenceError"
    /\ ~call.dryRun
    /\ dir = startDir

-----------------------------------------------------------------------------
(* Properties of the schema resolver *)

\* the candidates whose read succeeds
Readable == {i \in 1..uris : readable[i]}

\* C10: the resolver's read attempts the candidates one at a time in list
\* order, each at most once, attempts none after the first success, and
\* returns the content of the lowest-index candidate whose read succeeds.
C10_FirstSuccessWins ==
    rpc # "idle" =>
        /\ Len(attempts) <= uris
        /\ \A k \in 1..Len(attempts) : attempts[k] = k
        /\ \A k \in 1..(Len(attempts) - 1) : ~readable[attempts[k]]
        /\ rpc \in {"resolved", "returned"} /\ result # 0 =>
              /\ result \in Readable
              /\ \A i \in Readable : result <= i
              /\ Len(attempts) = result
        /\ (rpc = "resolved") => result # 0
        /\ (rpc = "rejected") => (Readable = {} /\ Len(attempts) = uris)

C10_Witness ==
    /\ rpc = "resolved"
    /\ uris = 3
    /\ result = 2
    /\ readable[3]
    /\ attempts = <<1, 2>>

-----------------------------------------------------------------------------
(* enforceNumericBounds(schema, bounds) and the robustness rule            *)
(* schema-enforced-numeric-bounds (assertEnforcedNumericBounds)            *)

\* numbers of a schema range over -MaxValue..MaxValue
MaxValue == 1

Values == (0 - MaxValue)..MaxValue

\* the value of a keyword: undefined (the node has no such key) or a number
Undefined == [defined |-> FALSE, value |-> 0]

Number(n) == [defined |-> TRUE, value |-> n]

Numbers == {Undefined} \cup {Number(n) : n \in Values}

\* a subschema as the traversal callback sees it: type, minimum, maximum
Nodes == [type : {"number", "integer", "string"}, minimum : Numbers,
          maximum : Numbers]

\* a schema: its root and the subschema of one property, in the order
\* json-schema-traverse visits them
Trees == [{1, 2} -> Nodes]

\* the values of enforcedNumericBounds: every <<min, max>> with min <= max;
\* <<-MaxValue, MaxValue>> stands for the default
\* [Number.MIN_SAFE_INTEGER, Number.MAX_SAFE_INTEGER]
BoundsPairs == {<<lo, hi>> \in Values \X Values : lo <= hi}

defaultBounds == <<0 - MaxValue, MaxValue>>

\* JavaScript truthiness of a keyword value: undefined and 0 are falsy
falsy(x) == ~x.defined \/ x.value = 0

\* mutation: the bound is assigned whatever the node holds
orElseAlways(a, b) == b

\* a || b
orElse(a, b) == IF falsy(a) THEN b ELSE a

\* ['number', 'integer'].includes(obj.type)
isNumeric(obj) == obj.type \in {"number", "integer"}

\* the traversal callback of enforceNumericBounds on one node
enforceNode(obj, b) ==
    IF isNumeric(obj)
    THEN [obj EXCEPT !.minimum = orElse(obj.minimum, Number(b[1])),
                     !.maximum = orElse(obj.maximum, Number(b[2]))]
    ELSE obj

\* traverseSchema(schemaCopy, cb): cb runs on every subschema
traverseSchema(s, b) == [i \in DOMAIN s |-> enforceNode(s[i], b)]

\* what the caller's schema object holds after the call: _.cloneDeep gave
\* the callback an object of its own
callerObject(s, returned) == s

enforceNumericBounds(s, b) == traverseSchema(s, b)

\* the asserts of assertEnforcedNumericBounds on one node
assertNode(obj, b) ==
    isNumeric(obj) =>
        /\ obj.minimum.defined
        /\ obj.minimum.value >= b[1]
        /\ obj.maximum.defined
        /\ obj.maximum.value <= b[2]

assertEnforcedNumericBounds(s, b) == \A i \in DOMAIN s : assertNode(s[i], b)

\* materializeSchema: schema = enforceNumericBounds(schema, bounds)
EnforceNumericBounds ==
    /\ epc = "called"
    /\ epc' = "enforced"
    /\ schemaCopy' = enforceNumericBounds(tree, bounds)
    /\ tree' = callerObject(tree, schemaCopy')
    /\ UNCHANGED <<given, bounds, materializeVars, sortVars, compatVars,
                   snakeVars, laterVars>>

\* the robustness test case runs on the materialized schema, under options
\* with the same enforcedNumericBounds
AssertEnforcedNumericBounds ==
    /\ epc = "enforced"
    /\ epc' = IF assertEnforcedNumericBounds(schemaCopy, bounds)
              THEN "passed" ELSE "AssertionError"
    /\ UNCHANGED <<tree, given, bounds, schemaCopy, materializeVars, sortVars,
                   compatVars, snakeVars, laterVars>>

\* nothing of materializeSchemaToPath, the resolver or the hook is running
MaterializeIdle ==
    /\ opts = defaultOptions
    /\ dir = EmptyDir
    /\ startDir = dir
    /\ InitCommon

\* a caller holds a schema and options with enforcedNumericBounds
InitBounds ==
    /\ MaterializeIdle
    /\ LaterIdle
    /\ SortIdle
    /\ CompatIdle
    /\ SnakeIdle
    /\ tree \in Trees
    /\ given = tree
    /\ bounds \in BoundsPairs
    /\ schemaCopy = <<>>
    /\ epc = "called"

NextBounds ==
    \/ EnforceNumericBounds
    \/ AssertEnforcedNumericBounds

SpecBounds == InitBounds /\ [][NextBounds]_vars

-----------------------------------------------------------------------------
(* Properties of enforceNumericBounds *)

Enforced == epc \in {"enforced", "passed", "AssertionError"}

C13_Original ==
    (Enforced /\ bounds = defaultBounds) =>
        \A i \in DOMAIN given :
            given[i] = [type |-> "integer", minimum |-> Number(0),
                        maximum |-> Undefined]
            => schemaCopy[i] = [type |-> "integer", minimum |-> Number(0),
                                maximum |-> Number(bounds[2])]

\* C14 as stated: for every schema and all bounds <<min, max>> with
\* min <= max, after enforcement every number or integer node satisfies
\* min <= minimum <= maximum <= max, so the rule
\* schema-enforced-numeric-bounds passes on the materialized schema.
C14_Original ==
    /\ Enforced =>
          \A i \in DOMAIN schemaCopy :
              LET new == schemaCopy[i]
              IN new.type \in {"number", "integer"} =>
                    /\ new.minimum.defined /\ new.maximum.defined
                    /\ bounds[1] <= new.minimum.value
                    /\ new.minimum.value <= new.maximum.value
                    /\ new.maximum.value <= bounds[2]
    /\ epc # "AssertionError"

-----------------------------------------------------------------------------
(* schemaInfoCompare and findAllSchemasInfo *)

\* most files of one directory listing
MaxFiles == 3

Titles == {"basic", "common"}

\* infoA.path.split('/').length
Depths == {2, 3}

\* what schemaInfoCompare reads of a schema info
Infos == [title : Titles, depth : Depths, version : Versions,
          current : BOOLEAN]

isInjective(f) == \A i, j \in DOMAIN f : f[i] = f[j] => i = j

\* what findSchemaPaths, schemaPathToInfo and the ignoreSchemas filter hand
\* to sort: the infos of distinct files, in the order of the listing
Listings ==
    UNION {{l \in [1..n -> Infos] : isInjective(l)} : n \in 0..MaxFiles}

\* infoA.title.includes('common')
includesCommon(title) == title = "common"

\* JavaScript truthiness of a number
truthy(n) == n # 0

\* schemaInfoCompare(infoA, infoB) as JavaScript parses its return
\* expression: ?: binds weaker than || and ===, so it reads
\*   (infoACommon === infoBCommon) ? 0
\*     : (((infoACommon ? -1 : 1) || depth || semver
\*          || (infoA.current === infoB.current)) ? 0
\*        : (infoB.current ? -1 : 1))
schemaInfoCompare(infoA, infoB) ==
    LET infoACommon == includesCommon(infoA.title)
        infoBCommon == includesCommon(infoB.title)
    IN IF infoACommon = infoBCommon THEN 0
       ELSE IF \/ truthy(IF infoACommon THEN -1 ELSE 1)
               \/ truthy(infoA.depth - infoB.depth)
               \/ truthy(semverCompare(infoA.version, infoB.version))
               \/ infoA.current = infoB.current
            THEN 0
            ELSE IF infoB.current THEN -1 ELSE 1

\* Array.prototype.sort(schemaInfoCompare) is stable: an element moves in
\* front of another only when the comparator puts it there
RECURSIVE insertSorted(_, _)
insertSorted(s, x) ==
    IF s = <<>> THEN <<x>>
    ELSE LET last == s[Len(s)]
         IN IF schemaInfoCompare(last, x) > 0
            THEN Append(insertSorted(SubSeq(s, 1, Len(s) - 1), x), last)
            ELSE Append(s, x)

RECURSIVE sort(_)
sort(s) ==
    IF s = <<>> THEN <<>>
    ELSE insertSorted(sort(SubSeq(s, 1, Len(s) - 1)), s[Len(s)])

\* findAllSchemasInfo(options)
FindAllSchemasInfo ==
    /\ spc = "listed"
    /\ spc' = "returned"
    /\ sorted' = sort(listing)
    /\ UNCHANGED <<listing, pairs, materializeVars, boundsVars, compatVars,
                   snakeVars, laterVars>>

\* the directory listing came back in some order
InitSort ==
    /\ MaterializeIdle
    /\ LaterIdle
    /\ BoundsIdle
    /\ CompatIdle
    /\ SnakeIdle
    /\ listing \in Listings
    /\ sorted = <<>>
    /\ spc = "listed"
    /\ pairs = {}

NextSort == FindAllSchemasInfo

SpecSort == InitSort /\ [][NextSort]_vars

-----------------------------------------------------------------------------
(* Properties of findAllSchemasInfo *)

\* infoA must not come after infoB: titles containing 'common' first, then
\* the shallower path, then the lower version, then the materialized file
\* before the current one
Before(infoA, infoB) ==
    LET a == <<IF includesCommon(infoA.title) THEN 0 ELSE 1, infoA.depth,
               semverCompare(infoA.version, infoB.version),
               IF infoA.current THEN 1 ELSE 0>>
        b == <<IF includesCommon(infoB.title) THEN 0 ELSE 1, infoB.depth, 0,
               IF infoB.current THEN 1 ELSE 0>>
    IN \/ a[1] < b[1]
       \/ a[1] = b[1] /\ a[2] < b[2]
       \/ a[1] = b[1] /\ a[2] = b[2] /\ a[3] < b[3]
       \/ a[1] = b[1] /\ a[2] = b[2] /\ a[3] = b[3] /\ a[4] <= b[4]

\* C15 as stated: whatever order the directory listing yields the files in,
\* findAllSchemasInfo returns the infos sorted by: titles containing
\* 'common' first, then shallower path, then ascending version, then the
\* current file after the materialized ones of the same version.
C15_Original ==
    spc = "returned" =>
        /\ Range(sorted) = Range(listing)
        /\ \A i, j \in 1..Len(sorted) :
              i < j => Before(sorted[i], sorted[j])

-----------------------------------------------------------------------------
(* The compatibility tests: assertCompatible(newSchema, oldSchema)         *)

\* A JSON value: a string, an array or an object.  An array or an object
\* holds its entries (key k, value x) in the order of Object.keys; the keys
\* of an array are its indexes.  Undef is JavaScript's undefined.
Str(str) == [t |-> "string", s |-> str, kv |-> <<>>]

Undef == [t |-> "undefined", s |-> "", kv |-> <<>>]

Null == [t |-> "null", s |-> "", kv |-> <<>>]

indexKey(i) == <<"0", "1", "2">>[i]

Arr(xs) == [t |-> "array", s |-> "",
            kv |-> [i \in 1..Len(xs) |-> [k |-> indexKey(i), x |-> xs[i]]]]

Obj(entries) == [t |-> "object", s |-> "", kv |-> entries]

Entry(key, value) == [k |-> key, x |-> value]

\* typeof v
typeof(v) == IF v.t \in {"array", "object", "null"} THEN "object" ELSE v.t

\* Array.isArray(v)
isArray(v) == v.t = "array"

\* key in v
has(v, key) == \E i \in 1..Len(v.kv) : v.kv[i].k = key

\* v[key]
get(v, key) ==
    IF has(v, key)
    THEN v.kv[CHOOSE i \in 1..Len(v.kv) : v.kv[i].k = key].x
    ELSE Undef

\* the strings an array of strings holds
elements(v) == {v.kv[i].x.s : i \in 1..Len(v.kv)}

count(v, str) == Cardinality({i \in 1..Len(v.kv) : v.kv[i].x.s = str})

\* what an assertion did: returned, or threw an error with a message that
\* names a path
Returned == [threw |-> "", message |-> "", path |-> <<>>]

AssertionError(msg, path) ==
    [threw |-> "AssertionError", message |-> msg, path |-> path]

TypeError(path) == [threw |-> "TypeError", message |-> "", path |-> path]

FIELDS_ALLOWED_TO_CHANGE == {"$id", "description", "examples"}

isAllowedToChange(fieldName) == fieldName \in FIELDS_ALLOWED_TO_CHANGE

\* _.isEqual(newRequired.sort(), oldRequired.sort()) on arrays of strings
isEqualSorted(a, b) ==
    /\ Len(a.kv) = Len(b.kv)
    /\ \A str \in elements(a) \cup elements(b) : count(a, str) = count(b, str)

\* assertRequiredCompatible is called for a node whose old schema has the
\* key 'required'
assertRequiredCompatible(newRequired, oldRequired, path) ==
    IF newRequired.t = "undefined"
    THEN AssertionError("Removed list of required properties", path)
    ELSE IF ~isArray(newRequired) \/ ~isArray(oldRequired)
    THEN TypeError(path)
    ELSE IF isEqualSorted(newRequired, oldRequired)
    THEN Returned
    ELSE AssertionError("Requiredness of properties cannot be modified", path)

\* mutation: one common value is enough (some instead of every)
assertEnumCompatibleSome(newEnum, oldEnum, path) ==
    IF newEnum.t = "undefined"
    THEN AssertionError("Removed enum", path)
    ELSE IF elements(oldEnum) \cap elements(newEnum) # {}
    THEN Returned
    ELSE AssertionError("New enum is not superset of old enum", path)

\* assertEnumCompatible is called for a node whose old schema has the key
\* 'enum': oldEnum.every(e => newEnum.includes(e))
assertEnumCompatible(newEnum, oldEnum, path) ==
    IF newEnum.t = "undefined"
    THEN AssertionError("Removed enum", path)
    ELSE IF ~isArray(newEnum) \/ ~isArray(oldEnum)
    THEN TypeError(path)
    ELSE IF \A e \in elements(oldEnum) : e \in elements(newEnum)
    THEN Returned
    ELSE AssertionError("New enum is not superset of old enum", path)

\* mutation: a key the new schema lacks is skipped
missingKeyTolerated(path) == Returned

\* the default case for a key of the old schema that is not in the new one
missingKey(path) == AssertionError("Error at path", path)

\* Array.prototype.sort() of an array of strings, in place: by code unit;
\* the names of the model are "a" < "b"
sortInPlace(v) ==
    Arr([i \in 1..Len(v.kv) |-> Str(IF i <= count(v, "a") THEN "a" ELSE "b")])

\* v with v[key] = x, for a key v has
put(v, key, x) ==
    [v EXCEPT !.kv = [j \in DOMAIN v.kv |->
                         IF v.kv[j].k = key THEN Entry(key, x) ELSE v.kv[j]]]

\* what a call did, and what it left of the two schema objects
Did(did, newSchema, oldSchema) ==
    [did |-> did, newSchema |-> newSchema, oldSchema |-> oldSchema]

\* case 'required': newRequired.sort() and oldRequired.sort() sort the
\* arrays of the two schemas in place, new first, before they are compared
caseRequired(newSchema, oldSchema, path) ==
    LET newRequired == get(newSchema, "required")
        oldRequired == get(oldSchema, "required")
    IN Did(assertRequiredCompatible(newRequired, oldRequired, path),
           IF isArray(newRequired)
           THEN put(newSchema, "required", sortInPlace(newRequired))
           ELSE newSchema,
           IF isArray(newRequired) /\ isArray(oldRequired)
           THEN put(oldSchema, "required", sortInPlace(oldRequired))
           ELSE oldSchema)

RECURSIVE assertCompatibleDid(_, _, _)
RECURSIVE forKeys(_, _, _, _)

\* the body of the for loop of assertCompatible for the i-th key of
\* oldSchema, and the rest of the loop unless it threw; newSchema.required,
\* newSchema.enum and key in newSchema throw a TypeError when newSchema is
\* null
forKeys(newSchema, oldSchema, path, i) ==
    IF i > Len(oldSchema.kv) THEN Did(Returned, newSchema, oldSchema)
    ELSE LET key == oldSchema.kv[i].k
             child == assertCompatibleDid(get(newSchema, key),
                          oldSchema.kv[i].x, Append(path, key))
             step ==
                 IF isAllowedToChange(key)
                 THEN Did(Returned, newSchema, oldSchema)
                 ELSE IF newSchema = Null
                 THEN Did(TypeError(path), newSchema, oldSchema)
                 ELSE IF key = "required"
                 THEN caseRequired(newSchema, oldSchema, Append(path, key))
                 ELSE IF key = "enum"
                 THEN Did(assertEnumCompatible(get(newSchema, "enum"),
                              get(oldSchema, "enum"), path),
                          newSchema, oldSchema)
                 ELSE IF has(newSchema, key)
                 THEN Did(child.did, put(newSchema, key, child.newSchema),
                          put(oldSchema, key, child.oldSchema))
                 ELSE Did(missingKey(Append(path, key)), newSchema, oldSchema)
         IN IF step.did.threw # "" THEN step
            ELSE forKeys(step.newSchema, step.oldSchema, path, i + 1)

\* assertCompatible(newSchema, oldSchema, path): what it did and what it
\* left of its arguments; typeof null is 'object' and Object.keys(null)
\* throws a TypeError
assertCompatibleDid(newSchema, oldSchema, path) ==
    IF typeof(newSchema) # typeof(oldSchema)
          \/ isArray(newSchema) # isArray(oldSchema)
    THEN Did(AssertionError("Error at path", path), newSchema, oldSchema)
    ELSE IF oldSchema = Null
    THEN Did(TypeError(path), newSchema, oldSchema)
    ELSE IF typeof(oldSchema) = "object"
    THEN forKeys(newSchema, oldSchema, path, 1)
    ELSE IF newSchema.s # oldSchema.s
    THEN Did(AssertionError("Error at path", path), newSchema, oldSchema)
    ELSE Did(Returned, newSchema, oldSchema)

\* whether assertCompatible returned or threw
assertCompatible(newSchema, oldSchema, path) ==
    assertCompatibleDid(newSchema, oldSchema, path).did

\* the subschemas of a property that the schemas of a group choose from
PropertySchemas ==
    LET string == Entry("type", Str("string"))
    IN { Obj(<<string>>),
         Obj(<<string, Entry("enum", Arr(<<Str("val1")>>))>>),
         Obj(<<string, Entry("enum", Arr(<<Str("val1"), Str("val2")>>))>>),
         Obj(<<string, Entry("enum", Arr(<<Str("val2"), Str("val1")>>))>>),
         Obj(<<Entry("type", Str("integer"))>>),
         Obj(<<Entry("type", Str("object")),
               Entry("properties", Obj(<<Entry("c", Obj(<<string>>))>>))>>),
         Obj(<<Entry("type", Str("object")), Entry("properties", Obj(<<>>))>>),
         Obj(<<Entry("type", Arr(<<Str("string")>>))>>),
         Obj(<<string, Entry("description", Str("one"))>>),
         Obj(<<string, Entry("description", Str("two"))>>) }

\* the values of the root's 'properties': no property, the property a, or
\* a and a property whose name is description
PropertyMaps ==
    {Obj(<<>>)}
    \cup {Obj(<<Entry("a", x)>>) : x \in PropertySchemas}
    \cup {Obj(<<Entry("a", Obj(<<Entry("type", Str("string"))>>)),
                Entry("description", Obj(<<Entry("type", Str(ty))>>))>>) :
             ty \in {"string", "integer"}}

\* the values of the root's 'required'; <<>> : the root has no such key
RequiredLists ==
    {<<>>, <<Entry("required", Arr(<<Str("a")>>))>>,
     <<Entry("required", Arr(<<Str("a"), Str("b")>>))>>,
     <<Entry("required", Arr(<<Str("b"), Str("a")>>))>>}

\* the materialized schema of the i-th version of the group
GroupSchema(i, required, properties) ==
    Obj(<<Entry("$id", Str(<<"/basic/1.0.0", "/basic/1.1.0",
                              "/basic/1.2.0">>[i])),
          Entry("type", Str("object"))>>
        \o required \o <<Entry("properties", properties)>>)

GroupSchemas(i) ==
    {GroupSchema(i, r, ps) : r \in RequiredLists, ps \in PropertyMaps}

\* the tests run one after the other on the schema objects the scanner
\* produced: what the i-th and later tests leave of the objects, and their
\* outcomes
RECURSIVE runTests(_, _)
runTests(schemas, i) ==
    IF i >= Len(schemas) THEN [schemas |-> schemas, outcomes |-> <<>>]
    ELSE LET ran == assertCompatibleDid(schemas[i + 1], schemas[i], <<>>)
             rest == runTests([schemas EXCEPT ![i] = ran.oldSchema,
                                              ![i + 1] = ran.newSchema], i + 1)
         IN [schemas |-> rest.schemas,
             outcomes |-> <<ran.did>> \o rest.outcomes]

\* declareTests: every consecutive pair of the group is a test of its own,
\* so every pair is checked whatever the others did
DeclareTests ==
    /\ cpc = "found"
    /\ cpc' = "done"
    /\ LET ran == runTests(held, 1)
       IN /\ outcomes' = ran.outcomes
          /\ held' = ran.schemas
    /\ UNCHANGED <<group, materializeVars, boundsVars, sortVars, snakeVars,
                   laterVars>>

\* findSchemasByTitleAndMajor found three materialized versions of one
\* title and major version
InitCompat ==
    /\ MaterializeIdle
    /\ LaterIdle
    /\ BoundsIdle
    /\ SortIdle
    /\ SnakeIdle
    /\ group \in {<<a, b, c>> : a \in GroupSchemas(1), b \in GroupSchemas(2),
                               c \in GroupSchemas(3)}
    /\ outcomes = <<>>
    /\ cpc = "found"
    /\ held = group

NextCompat == DeclareTests

SpecCompat == InitCompat /\ [][NextCompat]_vars

-----------------------------------------------------------------------------
(* Properties of the compatibility tests *)

\* the i-th test: group[i + 1] must be compatible with group[i]
Tests == 1..Len(outcomes)

oldOf(i) == group[i]

newOf(i) == group[i + 1]

passed(i) == outcomes[i].threw = ""

\* the subschema of property p of a root schema
property(root, p) == get(get(root, "properties"), p)

propertyNames(root) ==
    LET ps == get(root, "properties")
    IN {ps.kv[i].k : i \in 1..Len(ps.kv)}

requiredDiffers(old, new) ==
    \/ has(old, "required") # has(new, "required")
    \/ /\ has(old, "required")
       /\ elements(get(old, "required")) # elements(get(new, "required"))

RequiredMessages ==
    {"Removed list of required properties",
     "Requiredness of properties cannot be modified"}

EnumMessages == {"Removed enum", "New enum is not superset of old enum"}

\* C16 as stated: the compatibility check fails whenever the set of required
\* names of a node differs between old and new (a name added, a name
\* removed, the list removed, a list added where the old node had none),
\* and passes the required check when the two sets are equal, whatever
\* their order.
C16_Original ==
    cpc = "done" =>
        \A i \in Tests :
            IF requiredDiffers(oldOf(i), newOf(i))
            THEN ~passed(i)
            ELSE outcomes[i].message \notin RequiredMessages

\* C17: for every node where the old schema declares an enum, the enum check
\* passes if and only if every value of the old enum occurs in the new
\* enum, whatever the order of the values; removing a value or the whole
\* enum fails the compatibility check.
C17_EnumSuperset ==
    cpc = "done" =>
        \A i \in Tests :
            LET olda == property(oldOf(i), "a")
                newa == property(newOf(i), "a")
                superset ==
                    /\ has(newa, "enum")
                    /\ elements(get(olda, "enum"))
                          \subseteq elements(get(newa, "enum"))
            IN has(olda, "enum") =>
                  /\ passed(i) => superset
                  /\ outcomes[i].message \in EnumMessages => ~superset
                  /\ newa.t = "object" =>
                        (superset <=>
                            assertEnumCompatible(get(newa, "enum"),
                                get(olda, "enum"), <<>>).threw = "")
                  /\ (~superset /\ newa.t = "object"
                         /\ get(newa, "type") = get(olda, "type")
                         /\ ~requiredDiffers(oldOf(i), newOf(i)))
                        => /\ outcomes[i].threw = "AssertionError"
                           /\ outcomes[i].message \in EnumMessages
                           /\ outcomes[i].path = <<"properties", "a">>

C17_Witness ==
    /\ cpc = "done"
    /\ get(property(group[1], "a"), "enum") = Arr(<<Str("val1"), Str("val2")>>)
    /\ get(property(group[2], "a"), "enum") = Arr(<<Str("val2"), Str("val1")>>)
    /\ property(group[3], "a") = Obj(<<Entry("type", Str("string"))>>)
    /\ passed(1)
    /\ outcomes[2].message = "Removed enum"

\* a property of the old schema that the new schema lacks, or declares with
\* another type value or another array/object shape of it
propertyChanged(old, new, p) ==
    \/ ~has(get(new, "properties"), p)
    \/ LET oldType == get(property(old, p), "type")
           newType == get(property(new, p), "type")
       IN \/ oldType.t # newType.t
          \/ oldType.t = "string" /\ oldType.s # newType.s

\* C18 as stated: for every property name and every nesting depth, if a
\* property declared in the old schema is missing from the new schema, or
\* its subschema has a different type value or array/object shape, the
\* compatibility check fails with an AssertionError; only the values of the
\* annotations $id, description and examples may change freely.
C18_Original ==
    cpc = "done" =>
        \A i \in Tests : \A p \in propertyNames(oldOf(i)) :
            propertyChanged(oldOf(i), newOf(i), p)
               => outcomes[i].threw = "AssertionError"

\* C19: backward compatibility is transitive: if the check passes for
\* (new B, old A) and for (new C, old B), it passes for (new C, old A).
C19_Transitive ==
    (cpc = "done" /\ passed(1) /\ passed(2))
        => assertCompatible(group[3], group[1], <<>>).threw = ""

C19_Witness ==
    /\ cpc = "done"
    /\ passed(1)
    /\ passed(2)
    /\ get(property(group[1], "a"), "enum") = Arr(<<Str("val1")>>)
    /\ get(property(group[2], "a"), "enum") = Arr(<<Str("val1"), Str("val2")>>)
    /\ get(property(group[3], "a"), "enum") = Arr(<<Str("val2"), Str("val1")>>)
    /\ ~has(group[1], "required")
    /\ has(group[3], "required")

-----------------------------------------------------------------------------
(* The robustness rule schema-snake-case-properties:                       *)
(* assertSnakeCaseProperties(node, path)                                   *)

\* longest property name
MaxKeyLen == 2

\* the characters of a property name, one of each class the pattern tells
\* apart: a lower case letter, an upper case letter, a digit, _ and $
Alphabet == {"a", "A", "0", "_", "$"}

\* a property name is the sequence of its characters
Names == UNION {[1..n -> Alphabet] : n \in 0..MaxKeyLen}

\* mutation: the pattern is matched ignoring case
testSnakeCaseIgnoringCase(prop) ==
    \E n \in 1..Len(prop) :
        /\ \A i \in 1..n : prop[i] \in {"$", "a", "A"}
        /\ \A i \in (n + 1)..Len(prop) : prop[i] \in {"a", "A", "0", "_"}

\* /^[$a-z]+[a-z0-9_]*$/.test(prop)
testSnakeCase(prop) ==
    \E n \in 1..Len(prop) :
        /\ \A i \in 1..n : prop[i] \in {"$", "a"}
        /\ \A i \in (n + 1)..Len(prop) : prop[i] \in {"a", "0", "_"}

\* what the rule reads of a schema node: allOf (<<>> when absent), the
\* entries of properties in Object.keys order (<<>> when absent); items is
\* a place the rule does not look at
SnakeNode(allOf, properties, items) ==
    [allOf |-> allOf, properties |-> properties, items |-> items]

NoProperties == SnakeNode(<<>>, <<>>, <<>>)

Prop(name, schema) == [name |-> name, schema |-> schema]

\* schemas with one or two property names, at the places they can be in
SnakeSchemas ==
    LET one(n) == SnakeNode(<<>>, <<Prop(n, NoProperties)>>, <<>>)
    IN {one(n) : n \in Names}
       \cup {SnakeNode(<<>>, <<Prop(n, NoProperties), Prop(m, NoProperties)>>,
                       <<>>) : n \in Names, m \in Names}
       \cup {SnakeNode(<<>>, <<Prop(n, one(m))>>, <<>>) :
                n \in Names, m \in Names}
       \cup {SnakeNode(<<one(m)>>, <<Prop(n, NoProperties)>>, <<>>) :
                n \in Names, m \in Names}
       \cup {SnakeNode(<<>>, <<Prop(n, SnakeNode(<<one(m)>>, <<>>, <<>>))>>,
                       <<>>) : n \in Names, m \in Names}
       \cup {SnakeNode(<<>>, <<>>, <<one(n)>>) : n \in Names}

RECURSIVE assertSnakeCaseProperties(_, _)
RECURSIVE forEachAllOf(_, _, _)
RECURSIVE forEachProperty(_, _, _)

\* (node.allOf || []).forEach(...), from the i-th schema on
forEachAllOf(schemaNode, path, i) ==
    IF i > Len(schemaNode.allOf) THEN Returned
    ELSE LET did == assertSnakeCaseProperties(schemaNode.allOf[i], path)
         IN IF did.threw # "" THEN did ELSE forEachAllOf(schemaNode, path, i + 1)

\* Object.keys(node.properties || {}).forEach(...), from the i-th key on
forEachProperty(schemaNode, path, i) ==
    IF i > Len(schemaNode.properties) THEN Returned
    ELSE LET prop == schemaNode.properties[i].name
             propPath == Append(path, prop)
         IN IF ~testSnakeCase(prop)
            THEN AssertionError("Non snake_case", propPath)
            ELSE LET did == assertSnakeCaseProperties(
                                schemaNode.properties[i].schema, propPath)
                 IN IF did.threw # "" THEN did
                    ELSE forEachProperty(schemaNode, path, i + 1)

assertSnakeCaseProperties(schemaNode, path) ==
    LET did == forEachAllOf(schemaNode, path, 1)
    IN IF did.threw # "" THEN did ELSE forEachProperty(schemaNode, path, 1)

\* the test case schema-snake-case-properties runs on a schema
AssertSnakeCaseProperties ==
    /\ kpc = "declared"
    /\ kpc' = "done"
    /\ thrown' = assertSnakeCaseProperties(node, <<>>)
    /\ UNCHANGED <<node, materializeVars, boundsVars, sortVars, compatVars,
                   laterVars>>

InitSnake ==
    /\ MaterializeIdle
    /\ LaterIdle
    /\ BoundsIdle
    /\ SortIdle
    /\ CompatIdle
    /\ node \in SnakeSchemas
    /\ thrown = <<>>
    /\ kpc = "declared"

NextSnake == AssertSnakeCaseProperties

SpecSnake == InitSnake /\ [][NextSnake]_vars

-----------------------------------------------------------------------------
(* Properties of the snake case rule *)

\* the keys of every properties map reachable from a node through nested
\* properties and allOf, each with the path of property names to it
RECURSIVE reachableKeys(_, _)
reachableKeys(schemaNode, path) ==
    UNION {reachableKeys(schemaNode.allOf[i], path) :
              i \in 1..Len(schemaNode.allOf)}
    \cup {Append(path, schemaNode.properties[i].name) :
              i \in 1..Len(schemaNode.properties)}
    \cup UNION {reachableKeys(schemaNode.properties[i].schema,
                    Append(path, schemaNode.properties[i].name)) :
                   i \in 1..Len(schemaNode.properties)}

last(path) == path[Len(path)]

\* ^[$a-z][a-z0-9_]*$
matchesStatedPattern(prop) ==
    /\ Len(prop) >= 1
    /\ prop[1] \in {"$", "a"}
    /\ \A i \in 2..Len(prop) : prop[i] \in {"a", "0", "_"}

\* ^[$a-z]+[a-z0-9_]*$
matchesCodePattern(prop) ==
    /\ Len(prop) >= 1
    /\ prop[1] \in {"$", "a"}
    /\ \A i \in 2..Len(prop) :
          \/ prop[i] \in {"a", "0", "_"}
          \/ prop[i] = "$" /\ \A j \in 1..i : prop[j] \in {"$", "a"}

\* C20 as stated: the rule accepts a schema if and only if every key of
\* every properties map reachable through nested properties and allOf
\* matches ^[$a-z][a-z0-9_]*$.
C20_Original ==
    kpc = "done" =>
        (thrown.threw = "" <=>
            \A q \in reachableKeys(node, <<>>) : matchesStatedPattern(last(q)))

\* C20: the rule accepts a schema if and only if every key of every
\* properties map reachable through nested properties and allOf matches
\* ^[$a-z]+[a-z0-9_]*$ (a $ may follow leading $ and lower case letters);
\* otherwise it throws an AssertionError whose message gives the path of a
\* key that does not match, as a key such as testEnum.
C20_SnakeCase ==
    kpc = "done" =>
        /\ thrown.threw = "" <=>
              \A q \in reachableKeys(node, <<>>) : matchesCodePattern(last(q))
        /\ thrown.threw # "" =>
              /\ thrown.threw = "AssertionError"
              /\ thrown.message = "Non snake_case"
              /\ thrown.path \in reachableKeys(node, <<>>)
              /\ ~matchesCodePattern(last(thrown.path))

C20_Witness ==
    /\ kpc = "done"
    /\ Len(node.properties) = 1
    /\ node.properties[1].name = <<"a", "_">>
    /\ Len(node.properties[1].schema.allOf) = 1
    /\ thrown.threw = "AssertionError"
    /\ thrown.path = <<<<"a", "_">>, <<"a", "A">>>>

-----------------------------------------------------------------------------
(* The robustness rule schema-deterministic-types:                         *)
(* assertDeterministicTypes(node, path)                                    *)

\* most branches of a oneOf
MaxBranches == 2

\* what the rule reads of a schema node.  type is "" when absent and
\* "union" when it is an array of types; items, additionalProperties and
\* required hold one element when present and none when absent; properties,
\* allOf and oneOf are <<>> when absent.
TypedNode(type, required, properties, oneOf) ==
    [type |-> type, items |-> <<>>, additionalProperties |-> <<>>,
     required |-> required, properties |-> properties, allOf |-> <<>>,
     oneOf |-> oneOf]

\* type: array with the given items
ArrayNode(items) ==
    [type |-> "array", items |-> items, additionalProperties |-> <<>>,
     required |-> <<>>, properties |-> <<>>, allOf |-> <<>>, oneOf |-> <<>>]

\* the values of required in a oneOf branch: absent, or a list of names
RequiredOptions ==
    {<<>>, <<<<>>>>, <<<<"test">>>>, <<<<"test2">>>>,
     <<<<"test", "test2">>>>, <<<<"test2", "test">>>>}

StringNode == TypedNode("string", <<>>, <<>>, <<>>)

\* the branches of a oneOf: of every type, with every value of required;
\* an object branch has properties, but for one that is a bare object
OneOfBranches ==
    {TypedNode(t, r, IF t = "object" THEN <<Prop("test", StringNode)>>
                     ELSE <<>>, <<>>) :
        t \in {"", "string", "object", "union"}, r \in RequiredOptions}
    \cup {TypedNode("object", <<<<"test">>>>, <<>>, <<>>),
          ArrayNode(<<>>), ArrayNode(<<StringNode>>)}

\* schemas with a oneOf, at the root or under the property test_oneof
OneOfSchemas ==
    LET lists == UNION {[1..n -> OneOfBranches] : n \in 1..MaxBranches}
        unions == {TypedNode(t, <<>>, <<>>, bs) :
                      t \in {"", "object"}, bs \in lists}
    IN unions \cup
       {TypedNode("object", <<>>, <<Prop("test_oneof", u)>>, <<>>) :
           u \in {v \in unions : v.type = "object"}}

\* required.includes(item); required is undefined when absent
includesThrows(required) == required = <<>>

includes(required, item) == \E i \in 1..Len(required[1]) : required[1][i] = item

\* the check of the i-th and later branches against shape
RECURSIVE forEachRequired(_, _, _, _)
forEachRequired(oneOf, shape, path, i) ==
    IF i > Len(oneOf) THEN Returned
    ELSE LET required == oneOf[i].required
         IN IF includesThrows(required) THEN TypeError(path)
            ELSE IF /\ \A k \in 1..Len(shape) : includes(required, shape[k])
                    /\ \A k \in 1..Len(required[1]) :
                          \E j \in 1..Len(shape) : shape[j] = required[1][k]
                 THEN forEachRequired(oneOf, shape, path, i + 1)
                 ELSE AssertionError("oneOf contains schemas with different types",
                                     path)

\* the oneOf part of the rule, before it descends into the branches;
\* two array-valued types are never === each other
assertOneOf(schemaNode, path) ==
    LET oneOf == schemaNode.oneOf
        type == oneOf[1].type
        hasSameType == \A i \in 1..Len(oneOf) :
                           /\ oneOf[i].type = type
                           /\ (type = "union" => i = 1)
        shape == IF oneOf[1].required = <<>> THEN <<>>
                 ELSE oneOf[1].required[1]
    IN IF ~hasSameType
       THEN AssertionError("oneOf contains schemas with different types", path)
       ELSE IF type = "object" THEN forEachRequired(oneOf, shape, path, 1)
            ELSE Returned

RECURSIVE assertDeterministicTypes(_, _)
RECURSIVE forEachTyped(_, _, _)
RECURSIVE forEachTypedProperty(_, _, _)

\* schemas.forEach((schema) => assertDeterministicTypes(schema, path)), for
\* allOf and for oneOf, from the i-th schema on
forEachTyped(schemas, path, i) ==
    IF i > Len(schemas) THEN Returned
    ELSE LET did == assertDeterministicTypes(schemas[i], path)
         IN IF did.threw # "" THEN did ELSE forEachTyped(schemas, path, i + 1)

\* Object.keys(node.properties || {}).forEach(...), from the i-th key on
forEachTypedProperty(schemaNode, path, i) ==
    IF i > Len(schemaNode.properties) THEN Returned
    ELSE LET key == schemaNode.properties[i].name
             keyPath == path \o <<"properties", key>>
             schema == schemaNode.properties[i].schema
         IN IF schema.type = ""
            THEN AssertionError("Missing type", keyPath)
            ELSE LET did == assertDeterministicTypes(schema, keyPath)
                 IN IF did.threw # "" THEN did
                    ELSE forEachTypedProperty(schemaNode, path, i + 1)

assertDeterministicTypes(schemaNode, path) ==
    LET items == schemaNode.items
        additionalProperties == schemaNode.additionalProperties
        hasSchema == \/ schemaNode.properties # <<>>
                     \/ schemaNode.oneOf # <<>>
                     \/ schemaNode.allOf # <<>>
        array == IF schemaNode.type # "array" THEN Returned
                 ELSE IF items = <<>> \/ items[1].type = ""
                      THEN AssertionError("array type must specify items.type",
                                          path)
                      ELSE assertDeterministicTypes(items[1],
                                                    Append(path, "items"))
        object == IF schemaNode.type # "object" THEN Returned
                  ELSE IF ~hasSchema /\ additionalProperties = <<>>
                       THEN AssertionError(
                                "object type must specify properties or additionalProperties",
                                path)
                       ELSE IF additionalProperties = <<>> THEN Returned
                            ELSE assertDeterministicTypes(
                                     additionalProperties[1],
                                     Append(path, "additionalProperties"))
        properties == forEachTypedProperty(schemaNode, path, 1)
        allOf == forEachTyped(schemaNode.allOf, path, 1)
        oneOf == IF schemaNode.oneOf = <<>> THEN Returned
                 ELSE LET did == assertOneOf(schemaNode, path)
                      IN IF did.threw # "" THEN did
                         ELSE forEachTyped(schemaNode.oneOf, path, 1)
    IN IF schemaNode.type = "union"
       THEN AssertionError("Polymorphic type property", path)
       ELSE IF array.threw # "" THEN array
       ELSE IF object.threw # "" THEN object
       ELSE IF properties.threw # "" THEN properties
       ELSE IF allOf.threw # "" THEN allOf
       ELSE oneOf

\* the test case schema-deterministic-types runs on a schema
AssertDeterministicTypes ==
    /\ kpc = "declared"
    /\ kpc' = "done"
    /\ thrown' = assertDeterministicTypes(node, <<>>)
    /\ UNCHANGED <<node, materializeVars, boundsVars, sortVars, compatVars,
                   laterVars>>

InitOneOf ==
    /\ MaterializeIdle
    /\ LaterIdle
    /\ BoundsIdle
    /\ SortIdle
    /\ CompatIdle
    /\ node \in OneOfSchemas
    /\ thrown = <<>>
    /\ kpc = "declared"

NextOneOf == AssertDeterministicTypes

SpecOneOf == InitOneOf /\ [][NextOneOf]_vars

-----------------------------------------------------------------------------
(* Properties of the deterministic types rule *)

\* the node of the schema that has the oneOf, and its path
oneOfNode == IF node.oneOf # <<>> THEN node ELSE node.properties[1].schema

oneOfPath == IF node.oneOf # <<>> THEN <<>> ELSE <<"properties", "test_oneof">>

\* the names a branch requires, none when it has no required
requiredSet(branch) ==
    IF branch.required = <<>> THEN {}
    ELSE {branch.required[1][i] : i \in 1..Len(branch.required[1])}

\* the branches all have the same type and, when it is object, the same
\* set of required names
sameShape(oneOf) ==
    /\ \A i \in 1..Len(oneOf) : oneOf[i].type = oneOf[1].type
    /\ oneOf[1].type = "object" =>
          \A i \in 1..Len(oneOf) : requiredSet(oneOf[i]) = requiredSet(oneOf[1])

oneOfFailure ==
    AssertionError("oneOf contains schemas with different types", oneOfPath)

\* C21 as stated: the deterministic-types rule fails with an AssertionError
\* whenever the oneOf branches of a node do not all have the same type, or,
\* when that type is object, not the same set of required names, and it
\* passes this check whenever they do.
C21_Original ==
    kpc = "done" =>
        IF sameShape(oneOfNode.oneOf)
        THEN thrown # oneOfFailure /\ thrown.threw # "TypeError"
        ELSE thrown.threw = "AssertionError"

-----------------------------------------------------------------------------
(* YAML serialization: serializers.yaml with sortKeys: schemaKeyCompare    *)

\* most keys of an object
MaxKeys == 3

schemaKeySortOrder ==
    <<"title", "description", "$id", "$schema", "type",
      "additionalProperties", "required", "properties", "allOf", "examples">>

\* _.invert(schemaKeySortOrder): key -> index
sortOrder(k) == CHOOSE i \in 1..Len(schemaKeySortOrder) : schemaKeySortOrder[i] = k

inSortOrder(k) == \E i \in 1..Len(schemaKeySortOrder) : schemaKeySortOrder[i] = k

schemaKeyCompare(k1, k2) ==
    IF ~inSortOrder(k1) \/ ~inSortOrder(k2) THEN 0
    ELSE sortOrder(k1) - sortOrder(k2)

\* the keys objects are made of: keys of the list and keys that are not
Keys == {"properties", "allOf", "foo", "zebra"}

\* the keys of an object, in insertion order
KeyLists ==
    UNION {{l \in [1..n -> Keys] : \A i, j \in 1..n : l[i] = l[j] => i = j} :
              n \in 1..MaxKeys}

\* a comparator that Array.prototype.sort is defined for: equal keys are
\* ordered alike against every third key
isConsistent(keys) ==
    \A i, j, k \in 1..Len(keys) :
        schemaKeyCompare(keys[i], keys[j]) = 0 =>
            ((schemaKeyCompare(keys[i], keys[k]) < 0)
                 <=> (schemaKeyCompare(keys[j], keys[k]) < 0))

RECURSIVE insertKey(_, _)
insertKey(s, k) ==
    IF s = <<>> THEN <<k>>
    ELSE IF schemaKeyCompare(s[Len(s)], k) > 0
         THEN Append(insertKey(SubSeq(s, 1, Len(s) - 1), k), s[Len(s)])
         ELSE Append(s, k)

RECURSIVE stableSort(_)
stableSort(keys) ==
    IF keys = <<>> THEN <<>>
    ELSE insertKey(stableSort(SubSeq(keys, 1, Len(keys) - 1)), keys[Len(keys)])

permutations(keys) ==
    {l \in [1..Len(keys) -> {keys[i] : i \in 1..Len(keys)}] :
        \A i, j \in 1..Len(keys) : l[i] = l[j] => i = j}

\* objectKeyList.sort(schemaKeyCompare): the stable sort when the comparator
\* is consistent on the keys; otherwise the order is implementation-defined
sortKeys(keys) ==
    IF isConsistent(keys) THEN {stableSort(keys)} ELSE permutations(keys)

\* serializers.yaml(obj) of the i-th object
SerializeYaml(i) ==
    /\ i \notin ypc
    /\ ypc' = ypc \cup {i}
    /\ \E order \in sortKeys(objects[i]) :
           dumped' = [dumped EXCEPT ![i] = order]
    /\ UNCHANGED <<objects, materializeVars, boundsVars, sortVars, compatVars,
                   snakeVars, runVars, restVars>>

\* two objects are to be serialized
InitYaml ==
    /\ MaterializeIdle
    /\ BoundsIdle
    /\ SortIdle
    /\ CompatIdle
    /\ SnakeIdle
    /\ RunIdle
    /\ RestIdle
    /\ objects \in KeyLists \X KeyLists
    /\ dumped = <<<<>>, <<>>>>
    /\ ypc = {}

NextYaml == \E i \in 1..2 : SerializeYaml(i)

SpecYaml == InitYaml /\ [][NextYaml]_vars

-----------------------------------------------------------------------------
(* Properties of YAML serialization *)

keySet(keys) == {keys[i] : i \in 1..Len(keys)}

\* the keys of the list come in the order of the list, and every key that
\* is not in the list comes after every key that is
inPriorityOrder(keys) ==
    \A i, j \in 1..Len(keys) :
        i < j =>
            /\ inSortOrder(keys[j]) => inSortOrder(keys[i])
            /\ (inSortOrder(keys[i]) /\ inSortOrder(keys[j]))
                  => sortOrder(keys[i]) < sortOrder(keys[j])

\* C22 as stated: YAML serialization emits the keys of an object in an
\* order that depends only on the set of keys, not on their insertion
\* order: keys of the priority list in that order, and every key that is
\* not in the list after every key that is.
C22_Original ==
    ypc = {1, 2} =>
        /\ keySet(objects[1]) = keySet(objects[2]) => dumped[1] = dumped[2]
        /\ \A i \in 1..2 : inPriorityOrder(dumped[i])

-----------------------------------------------------------------------------
(* materializeAllSchemas and materializeModifiedSchemas on a repository    *)
(* of two titles: common, and basic, whose current schema has a $ref to    *)
(* the materialized version of common                                      *)

\* what a file can hold of the schema of common: NoFileYet when there is
\* no file, Stale for what an earlier current.yaml of common had, Fresh
\* for what current.yaml of common has now.  The materialized file of
\* basic holds the content of common that dereferencing inlined.
NoFileYet == "none"
Stale == "stale"
Fresh == "fresh"

\* the current schema files of the repository, in the order of the listing
CurrentListings ==
    {l \in [1..2 -> {i \in Infos : i.current /\ i.version = <<1, 0, 0>>}] :
        l[1].title # l[2].title}

\* the comparator of materializeModifiedSchemas; as JavaScript parses it:
\*   p1Common === p2Common ? 0 : ((p1Common ? -1 : 1) || depth difference)
sortedSchemaPathsCompare(p1, p2) ==
    LET p1Common == includesCommon(p1.title)
        p2Common == includesCommon(p2.title)
    IN IF p1Common = p2Common THEN 0
       ELSE IF truthy(IF p1Common THEN -1 ELSE 1)
            THEN (IF p1Common THEN -1 ELSE 1)
            ELSE p1.depth - p2.depth

\* schemaPaths.sort(...) of two paths
sortedSchemaPaths(l) ==
    IF sortedSchemaPathsCompare(l[1], l[2]) > 0 THEN <<l[2], l[1]>> ELSE l

\* the $ref of a current schema: basic refers to common
hasRef(title) == title = "basic"

\* findAllSchemasInfo(options).filter(e => e.current), or
\* gitModifiedSchemaPaths(options) and its sort
FindCurrentSchemas ==
    /\ spc = "listed"
    /\ run # <<>>
    /\ spc' = "returned"
    /\ sorted' = IF run.fn = "materializeAllSchemas" THEN sort(listing)
                 ELSE sortedSchemaPaths(listing)
    /\ UNCHANGED <<listing, pairs, runVars, yamlVars, restVars, materializeVars,
                   boundsVars, compatVars, snakeVars>>

\* materializeAllSchemas: _.map calls materializeSchemaToPath for every
\* current schema; each call runs up to its first await and returns a
\* promise, and Promise.all waits for all of them
MapAll ==
    /\ spc = "returned"
    /\ run.fn = "materializeAllSchemas"
    /\ \A t \in Titles : mpc[t] = "pending"
    /\ mpc' = [t \in Titles |-> "dereferencing"]
    /\ UNCHANGED <<run, repo, inlined, yamlVars, restVars, materializeVars, boundsVars,
                   sortVars, compatVars, snakeVars>>

\* materializeModifiedSchemas: Promise.mapSeries calls
\* materializeSchemaToPath for the i-th path when the promises of the
\* paths before it have resolved
MapSeries(i) ==
    /\ spc = "returned"
    /\ run.fn = "materializeModifiedSchemas"
    /\ mpc[sorted[i].title] = "pending"
    /\ \A j \in 1..(i - 1) : mpc[sorted[j].title] = "done"
    /\ mpc' = [mpc EXCEPT ![sorted[i].title] = "dereferencing"]
    /\ UNCHANGED <<run, repo, inlined, yamlVars, restVars, materializeVars, boundsVars,
                   sortVars, compatVars, snakeVars>>

\* materializeSchema of one title: dereferenceSchema reads the file its
\* $ref names, which fails when there is no such file
DereferenceCurrent(t) ==
    /\ mpc[t] = "dereferencing"
    /\ IF hasRef(t) /\ repo["common"] = NoFileYet
       THEN /\ mpc' = [mpc EXCEPT ![t] = "failed"]
            /\ UNCHANGED inlined
       ELSE /\ mpc' = [mpc EXCEPT ![t] = "writing"]
            /\ inlined' = [inlined EXCEPT
                              ![t] = IF hasRef(t) THEN repo["common"] ELSE Fresh]
    /\ UNCHANGED <<run, repo, yamlVars, restVars, materializeVars, boundsVars,
                   sortVars, compatVars, snakeVars>>

\* the branches of materializeSchemaToPath of one title: writeObject of the
\* dereferenced schema and the symlinks, unless dryRun
WriteCurrent(t) ==
    /\ mpc[t] = "writing"
    /\ mpc' = [mpc EXCEPT ![t] = "done"]
    /\ repo' = IF run.dryRun THEN repo ELSE [repo EXCEPT ![t] = inlined[t]]
    /\ UNCHANGED <<run, inlined, yamlVars, restVars, materializeVars, boundsVars,
                   sortVars, compatVars, snakeVars>>

\* a repository with two current schemas; each has no materialized file
\* yet, or one of its current version
InitAll ==
    /\ MaterializeIdle
    /\ BoundsIdle
    /\ CompatIdle
    /\ SnakeIdle
    /\ YamlIdle
    /\ RestIdle
    /\ listing \in CurrentListings
    /\ sorted = <<>>
    /\ spc = "listed"
    /\ pairs = {}
    /\ run \in [fn : {"materializeAllSchemas", "materializeModifiedSchemas"},
                dryRun : BOOLEAN]
    /\ repo \in [Titles -> {NoFileYet, Stale, Fresh}]
    /\ inlined = [t \in Titles |-> NoFileYet]
    /\ mpc = [t \in Titles |-> "pending"]

NextAll ==
    \/ FindCurrentSchemas
    \/ MapAll
    \/ \E i \in 1..2 : MapSeries(i)
    \/ \E t \in Titles : DereferenceCurrent(t)
    \/ \E t \in Titles : WriteCurrent(t)

SpecAll == InitAll /\ [][NextAll]_vars

-----------------------------------------------------------------------------
(* Properties of materializeAllSchemas and materializeModifiedSchemas *)

\* the run completed successfully: every promise resolved
Resolved == \A t \in Titles : mpc[t] = "done"

\* what materializeSchema(current schema) of a title yields now, NoFileYet
\* when dereferencing fails
materializeCurrent(t) == IF hasRef(t) THEN repo["common"] ELSE Fresh

\* the structure rule of a title: the artifact of the current version
\* exists and parses to materializeSchema(current schema)
roundTrip(t) ==
    /\ repo[t] # NoFileYet
    /\ materializeCurrent(t) # NoFileYet
    /\ repo[t] = materializeCurrent(t)

\* C23 as stated: immediately after materializeAllSchemas completes
\* successfully on a repository in which each current schema's version is
\* at least every already materialized version of its title, for every
\* title the artifact of the current version exists and parses to a
\* document deep-equal to materializeSchema(current schema).
C23_Original ==
    (run # <<>> /\ run.fn = "materializeAllSchemas" /\ Resolved) =>
        \A t \in Titles : roundTrip(t)

\* C24 as stated: whenever one run materializes several current schemas,
\* the materialization of a schema marked common has written all its files
\* and symlinks before the materialization of any other schema starts
\* reading or writing.
C24_Original ==
    run # <<>> =>
        \A c, t \in Titles :
            (includesCommon(c) /\ ~includesCommon(t)
                /\ mpc[t] \in {"writing", "done", "failed"})
            => mpc[c] = "done"

-----------------------------------------------------------------------------
(* The compatibility tests that declareTests declares for the files that   *)
(* findSchemasByTitleAndMajor finds                                        *)

\* the versions of the files of a repository
FileVersions == {<<1, 0, 0>>, <<1, 1, 0>>, <<1, 2, 0>>, <<2, 0, 0>>}

\* the files of the primary content type of the schema directories:
\* materialized versions and current files
FileInfos == [title : Titles, depth : {2}, version : FileVersions,
              current : BOOLEAN]

FileListings ==
    UNION {{l \in [1..n -> FileInfos] : isInjective(l)} : n \in 0..MaxFiles}

\* semver.parse(info.version).major
major(v) == v[1]

\* allSchemas[title][major] without the current files: _.groupBy keeps the
\* order of the array findAllSchemasInfo returned
materializedSchemas(infos, title, m) ==
    LET keep(info) == /\ info.title = title
                      /\ major(info.version) = m
                      /\ ~info.current
    IN SelectSeq(infos, keep)

\* the tests declared for one title and major version: one for every two
\* neighbours of materializedSchemas
declaredPairs(infos, title, m) ==
    LET ms == materializedSchemas(infos, title, m)
    IN {[title |-> title, old |-> ms[i].version, new |-> ms[i + 1].version] :
           i \in 1..(Len(ms) - 1)}

\* declareTests(options) of the compatibility tests
DeclareCompatibilityTests ==
    /\ spc = "returned"
    /\ spc' = "declared"
    /\ pairs' = UNION {declaredPairs(sorted, t, m) :
                          t \in Titles, m \in {major(v) : v \in FileVersions}}
    /\ UNCHANGED <<listing, sorted, materializeVars, boundsVars, compatVars,
                   snakeVars, laterVars>>

InitPairs ==
    /\ MaterializeIdle
    /\ LaterIdle
    /\ BoundsIdle
    /\ CompatIdle
    /\ SnakeIdle
    /\ listing \in FileListings
    /\ sorted = <<>>
    /\ spc = "listed"
    /\ pairs = {}

NextPairs ==
    \/ FindAllSchemasInfo
    \/ DeclareCompatibilityTests

SpecPairs == InitPairs /\ [][NextPairs]_vars

-----------------------------------------------------------------------------
(* Properties of the declared compatibility tests *)

\* the non-current versions of a title and major version in the listing
groupVersions(title, m) ==
    {listing[i].version : i \in {j \in 1..Len(listing) :
        /\ listing[j].title = title
        /\ major(listing[j].version) = m
        /\ ~listing[j].current}}

\* the pairs of neighbours in ascending semantic-version order
consecutivePairs ==
    {[title |-> t, old |-> a, new |-> b] :
        t \in Titles, a \in FileVersions, b \in FileVersions} \cap
    {p \in [title : Titles, old : FileVersions, new : FileVersions] :
        /\ major(p.old) = major(p.new)
        /\ {p.old, p.new} \subseteq groupVersions(p.title, major(p.old))
        /\ semverCompare(p.old, p.new) < 0
        /\ ~\E v \in groupVersions(p.title, major(p.old)) :
              semverCompare(p.old, v) < 0 /\ semverCompare(v, p.new) < 0}

\* C25 as stated: in each title+major group the compatibility rule set
\* checks exactly the pairs (v_i, v_i+1) of the non-current versions taken
\* in ascending semantic-version order, always with the higher version as
\* the new schema and the lower version as the old schema, whatever the
\* listing order of the file names.
C25_Original == spc = "declared" => pairs = consecutivePairs

-----------------------------------------------------------------------------
(* The checker and the schema objects the scanner produced *)

\* C26 as stated: after any run of the compatibility rules every scanned
\* schema document is deep-equal, element order of its arrays (such as
\* required) included, to what it was before the run.
C26_Original == cpc = "done" => held = group

-----------------------------------------------------------------------------
(* A schema checked against an identical copy of itself *)

\* the values of the root's 'properties' with a property named as a
\* keyword the check treats specially, or with a null value
SpecialPropertyMaps ==
    LET string == Entry("type", Str("string"))
    IN {Obj(<<Entry(name, Obj(<<string>>))>>) :
           name \in {"required", "enum", "description", "examples"}}
       \cup {Obj(<<Entry("a", Obj(<<string, Entry("default", Null)>>))>>),
             Obj(<<Entry("a", Obj(<<string, Entry("examples", Null)>>))>>),
             Obj(<<Entry("a", Obj(<<string,
                 Entry("enum", Arr(<<Str("val1"), Null>>))>>))>>)}

ReflexiveSchemas ==
    GroupSchemas(1)
    \cup {GroupSchema(1, r, ps) : r \in RequiredLists,
                                  ps \in SpecialPropertyMaps}

\* the two materialized versions of a title hold the same document
InitReflexive ==
    /\ MaterializeIdle
    /\ LaterIdle
    /\ BoundsIdle
    /\ SortIdle
    /\ SnakeIdle
    /\ group \in {<<schema, schema>> : schema \in ReflexiveSchemas}
    /\ outcomes = <<>>
    /\ cpc = "found"
    /\ held = group

NextReflexive == DeclareTests

SpecReflexive == InitReflexive /\ [][NextReflexive]_vars

\* C30 as stated: for every schema document S, including one with a
\* property named required, enum, description or examples and one
\* containing null values, the compatibility check of S against an
\* identical copy of S passes without raising any error.
C30_Original == cpc = "done" => outcomes[1].threw = ""

-----------------------------------------------------------------------------
(* Properties of createSymlink *)

\* the branches that are inside a createSymlink call
Linking == {ct \in Range(contentTypes) : bpc[ct] \in {"unlink", "symlink", "linked"}}

\* the symlink paths that only the branch of a content type touches
linkPaths(ct) ==
    {LatestPath(ct)} \cup
    (IF ct = contentTypes[1] THEN {LatestPath(""), extensionless} ELSE {})

\* C28: createSymlink replaces an entry by remove-then-create.  In every
\* state of a createSymlink call the symlink path holds the old entry
\* (before the removal), nothing (between removal and creation) or a symlink
\* to the new target (after the creation), so that is what a crash leaves.
\* If the removal fails for a reason other than the path not existing, the
\* call fails with an error, no symlink is created and the old entry stays
\* in place.
C28_RemoveThenCreate ==
    /\ [](\A ct \in Linking :
             /\ dir[linkPath(ct)] \in
                   {startDir[linkPath(ct)], Absent,
                    SymlinkEntry(materializedSchemaPath(ct))}
             /\ bpc[ct] = "unlink" => dir[linkPath(ct)] = startDir[linkPath(ct)]
             /\ bpc[ct] = "symlink" => dir[linkPath(ct)] = Absent
             /\ bpc[ct] = "linked" =>
                   dir[linkPath(ct)] = SymlinkEntry(materializedSchemaPath(ct)))
    /\ [][\A ct \in Range(contentTypes) :
             /\ (bpc[ct] = "unlink" /\ bpc'[ct] # "unlink" /\ faults' > faults) =>
                   /\ dir[linkPath(ct)].kind # "absent"
                   /\ bpc'[ct] = "failed"
                   /\ pc' = "failed"
                   /\ err' # "none"
                   /\ dir' = dir
             /\ bpc[ct] = "failed" => \A p \in linkPaths(ct) : dir'[p] = dir[p]
         ]_vars

\* a crash here leaves no symlink where the old latest symlink was
C28_Witness ==
    \E ct \in Range(contentTypes) :
        /\ bpc[ct] = "symlink"
        /\ stage[ct] = "latestCt"
        /\ startDir[LatestPath(ct)].kind = "symlink"
        /\ dir[LatestPath(ct)] = Absent

-----------------------------------------------------------------------------
(* readConfig(options, force)                                              *)

\* most readConfig calls of a process
MaxCalls == 3

\* two of the options: schemaBasePath has a default, schemaBaseUris has
\* none and is derived from schemaBasePath when nothing sets it
OptionKeys == {"schemaBasePath", "schemaBaseUris"}

\* a key an object does not set
Unset == <<>>

\* the objects a source can be: every key set to the value of that source,
\* or not set; a config file that does not exist reads as {}
Sources(value) == [OptionKeys -> {Unset, <<value>>}]

defaultOptionValues ==
    [k \in OptionKeys |-> IF k = "schemaBasePath" THEN <<"cwd">> ELSE Unset]

\* _.defaults(object, source): the keys object does not set come from source
lodashDefaults(object, source) ==
    [k \in OptionKeys |-> IF object[k] = Unset THEN source[k] ELSE object[k]]

\* configPaths.map(read).concat(options).reduce(_.defaults, defaultOptions)
\* and the schemaBaseUris of an object that has none
finalOptions(options, read) ==
    LET merged == lodashDefaults(options,
                      lodashDefaults(read[2],
                          lodashDefaults(read[1], defaultOptionValues)))
    IN [merged EXCEPT !["schemaBaseUris"] =
           IF merged["schemaBaseUris"] = Unset
           THEN <<"schemaBasePath">> \o merged["schemaBasePath"]
           ELSE merged["schemaBaseUris"]]

\* mutation: the config files are read on every call
returnsAsIsNever(hasBeenRead, force) == FALSE

\* if (configHasBeenRead && !force) return options
returnsAsIs(hasBeenRead, force) == hasBeenRead /\ ~force

ReadConfig(options, force) ==
    /\ calls < MaxCalls
    /\ calls' = calls + 1
    /\ lastCall' = [options |-> options, force |-> force]
    /\ IF returnsAsIs(configHasBeenRead, force)
       THEN /\ config' = options
            /\ UNCHANGED configHasBeenRead
       ELSE /\ config' = finalOptions(options, configs)
            /\ configHasBeenRead' = TRUE
    /\ UNCHANGED <<configs, structVars, yamlVars, runVars, materializeVars,
                   boundsVars, sortVars, compatVars, snakeVars>>

\* a config file is edited between two calls
EditConfig(i, content) ==
    /\ content # configs[i]
    /\ configs' = [configs EXCEPT ![i] = content]
    /\ UNCHANGED <<configHasBeenRead, calls, lastCall, config, structVars,
                   yamlVars, runVars, materializeVars, boundsVars, sortVars,
                   compatVars, snakeVars>>

\* a process starts: nothing has been read
InitConfig ==
    /\ MaterializeIdle
    /\ BoundsIdle
    /\ SortIdle
    /\ CompatIdle
    /\ SnakeIdle
    /\ YamlIdle
    /\ RunIdle
    /\ StructIdle
    /\ configHasBeenRead = FALSE
    /\ configs \in Sources("config1") \X Sources("config2")
    /\ calls = 0
    /\ lastCall = [options |-> defaultOptionValues, force |-> FALSE]
    /\ config = defaultOptionValues

NextConfig ==
    \/ \E options \in Sources("custom"), force \in BOOLEAN :
           ReadConfig(options, force)
    \/ \E content \in Sources("config1") : EditConfig(1, content)
    \/ \E content \in Sources("config2") : EditConfig(2, content)

SpecConfig == InitConfig /\ [][NextConfig]_vars

-----------------------------------------------------------------------------
(* Properties of readConfig *)

\* the value of the source of highest precedence that sets the key: caller
\* options, then the later config file, then the earlier one, then the
\* defaults
byPrecedence(k, options) ==
    IF options[k] # Unset THEN options[k]
    ELSE IF configs[2][k] # Unset THEN configs[2][k]
    ELSE IF configs[1][k] # Unset THEN configs[1][k]
    ELSE defaultOptionValues[k]

\* C29: once readConfig has read the config files, every later call
\* without force returns its argument exactly as passed (no default and no
\* config-file value is merged into it); a call with force=true, like the
\* first call, reads the files as they are now and merges with precedence
\* caller options over later config files over earlier config files over
\* defaults (schemaBaseUris, which has no default, is derived from the
\* merged schemaBasePath when no source sets it).
C29_ReadConfig ==
    [][calls' = calls + 1 =>
          IF configHasBeenRead /\ ~lastCall'.force
          THEN config' = lastCall'.options /\ configHasBeenRead'
          ELSE /\ configHasBeenRead'
               /\ config'["schemaBasePath"] =
                     byPrecedence("schemaBasePath", lastCall'.options)
               /\ config'["schemaBaseUris"] =
                     IF byPrecedence("schemaBaseUris", lastCall'.options) # Unset
                     THEN byPrecedence("schemaBaseUris", lastCall'.options)
                     ELSE <<"schemaBasePath">> \o
                          byPrecedence("schemaBasePath", lastCall'.options)
      ]_vars

\* a later call without force got back an argument that sets nothing,
\* though a config file sets schemaBasePath
C29_Witness ==
    /\ calls = 2
    /\ configHasBeenRead
    /\ ~lastCall.force
    /\ config = [k \in OptionKeys |-> Unset]
    /\ configs[1]["schemaBasePath"] = <<"config1">>

-----------------------------------------------------------------------------
(* declareTests of the structure and robustness tests, and the mocha run    *)

SchemaTitles == {"basic", "common"}

\* what the checker finds for a title: are its files in the directory named
\* by the title, is there a current file, is there a materialized version
\* of contentTypes[0], has every version a file of every content type, and
\* does the schema pass the robustness test case
Layouts ==
    [inTitleDirectory : BOOLEAN, hasCurrent : BOOLEAN, hasLatest : BOOLEAN,
     hasAllContentTypes : BOOLEAN, robust : BOOLEAN]

\* it(description, fn) and it.only(description, fn)
it(title, rule) == [title |-> title, rule |-> rule, only |-> FALSE]
itOnly(title, rule) == [title |-> title, rule |-> rule, only |-> TRUE]

\* the test cases the describe callback of one title declares, up to each
\* of its returns
structureTests(t, l) ==
    LET first == {it(t, "same directory")}
        current == {it(t, "must contain current"),
                    it(t, "must not contain extensionless current")}
        rest == {it(t, "current is the greatest version"),
                 it(t, "current equals latest"),
                 it(t, "latest symlinks"),
                 it(t, "each version")}
    IN IF ~l.inTitleDirectory
       THEN first \cup {itOnly(t, "directory matches title")}
       ELSE IF ~l.hasCurrent
       THEN first \cup current \cup {itOnly(t, "must have a current file")}
       ELSE IF ~l.hasLatest
       THEN first \cup current \cup {itOnly(t, "must find the latest version")}
       ELSE first \cup current \cup rest

\* schemaInfoForContentType.path is read while the tests of a version are
\* declared: a TypeError when the version has no file of the content type
structureThrows(l) ==
    l.inTitleDirectory /\ l.hasCurrent /\ l.hasLatest /\ ~l.hasAllContentTypes

\* does the body of a test case pass
passes(test, l) ==
    CASE test.rule = "directory matches title" -> l.inTitleDirectory
      [] test.rule = "must contain current" -> l.hasCurrent
      [] test.rule = "must have a current file" -> l.hasCurrent
      [] test.rule = "must find the latest version" -> l.hasLatest
      [] test.rule = "robustness" -> l.robust
      [] OTHER -> TRUE

\* structure declareTests: the describe callbacks run at once, title by
\* title; an exception in one of them leaves declareTests and the test file
DeclareStructureTests ==
    /\ tpc = "idle"
    /\ IF \E t \in SchemaTitles : structureThrows(layout[t])
       THEN /\ tpc' = "threw"
            /\ UNCHANGED declared
       ELSE /\ tpc' = "structure"
            /\ declared' = UNION {structureTests(t, layout[t]) : t \in SchemaTitles}
    /\ UNCHANGED <<layout, report, configVars, yamlVars, runVars,
                   materializeVars, boundsVars, sortVars, compatVars, snakeVars>>

\* robustness declareTests: the test cases of every schema of every title
DeclareRobustnessTests ==
    /\ tpc = "structure"
    /\ tpc' = "declared"
    /\ declared' = declared \cup {it(t, "robustness") : t \in SchemaTitles}
    /\ UNCHANGED <<layout, report, configVars, yamlVars, runVars,
                   materializeVars, boundsVars, sortVars, compatVars, snakeVars>>

\* mocha: when a test is marked only, the tests marked only are the tests
\* that run; a test that fails does not stop the run
RunMocha ==
    /\ tpc = "declared"
    /\ tpc' = "ran"
    /\ LET onlyTests == {test \in declared : test.only}
           tests == IF onlyTests # {} THEN onlyTests ELSE declared
       IN report' = {[title |-> test.title, rule |-> test.rule,
                      ok |-> passes(test, layout[test.title])] : test \in tests}
    /\ UNCHANGED <<layout, declared, configVars, yamlVars, runVars,
                   materializeVars, boundsVars, sortVars, compatVars, snakeVars>>

InitTests ==
    /\ MaterializeIdle
    /\ BoundsIdle
    /\ SortIdle
    /\ CompatIdle
    /\ SnakeIdle
    /\ YamlIdle
    /\ RunIdle
    /\ ConfigIdle
    /\ layout \in [SchemaTitles -> Layouts]
    /\ declared = {}
    /\ report = {}
    /\ tpc = "idle"

NextTests == DeclareStructureTests \/ DeclareRobustnessTests \/ RunMocha

SpecTests == InitTests /\ [][NextTests]_vars

-----------------------------------------------------------------------------
(* Properties of the test run *)

\* the rules that are run for a title when no rule fails
rulesOfPassingRun ==
    {"same directory", "must contain current",
     "must not contain extensionless current",
     "current is the greatest version", "current equals latest",
     "latest symlinks", "each version", "robustness"}

\* the rules that were run and reported for a title
rulesRun(t) == {r.rule : r \in {x \in report : x.title = t}}

\* C27: a failure of one rule for one title never prevents any other rule,
\* nor the same rule for another title, from being evaluated and reported:
\* once the run is over, every rule that is run for a title when nothing
\* fails has been run for every title.
C27_Original ==
    tpc \in {"ran", "threw"} =>
        \A t \in SchemaTitles : rulesOfPassingRun \subseteq rulesRun(t)

====
